---- MODULE Spec2Model ----
(***************************************************************************)
(* AparGestion: iCal ingestion, booking merge / conflict check, and the    *)
(* Word-template placeholder extraction and substitution pipeline.         *)
(*                                                                         *)
(* Text is modelled character by character: a JavaScript string is a       *)
(* sequence of one-character strings, and the string operations the code   *)
(* uses (split, indexOf, substring, startsWith, trim, parseInt, the        *)
(* regular expressions) are operators over such sequences.                 *)
(***************************************************************************)
EXTENDS Integers, Sequences, FiniteSets, TLC

(***************************************************************************)
(* JavaScript string primitives.                                           *)
(***************************************************************************)

\* The value JavaScript calls undefined, where a string is expected. No real
\* string equals it: every element of a real string is a single character.
Undefined == <<"undefined">>

Min2(a, b) == IF a <= b THEN a ELSE b

Max2(a, b) == IF a >= b THEN a ELSE b

\* s has p at the 0-based position i
MatchAt(s, p, i) ==
    /\ i >= 0
    /\ i + Len(p) <= Len(s)
    /\ \A k \in 1..Len(p) : s[i + k] = p[k]

\* String.prototype.indexOf(p, from): 0-based position, -1 when absent
RECURSIVE IndexOfFrom(_, _, _)
IndexOfFrom(s, p, from) ==
    IF from + Len(p) > Len(s) THEN -1
    ELSE IF MatchAt(s, p, from) THEN from
    ELSE IndexOfFrom(s, p, from + 1)

IndexOf(s, p) == IndexOfFrom(s, p, 0)

Includes(s, p) == IndexOf(s, p) >= 0

\* String.prototype.substring(a, b): arguments clamped to [0, length] and
\* swapped when a > b
Substring(s, a, b) ==
    LET ca == Min2(Max2(a, 0), Len(s))
        cb == Min2(Max2(b, 0), Len(s))
    IN  SubSeq(s, Min2(ca, cb) + 1, Max2(ca, cb))

\* String.prototype.substring(a)
SubstringFrom(s, a) == Substring(s, a, Len(s))

StartsWith(s, p) == MatchAt(s, p, 0)

\* String.prototype.split(sep) for a non-empty separator string
RECURSIVE Split(_, _)
Split(s, sep) ==
    LET i == IndexOf(s, sep)
    IN  IF i < 0 THEN <<s>>
        ELSE <<Substring(s, 0, i)>> \o Split(SubstringFrom(s, i + Len(sep)), sep)

\* String.prototype.split(/\r?\n/)
RECURSIVE SplitLines(_)
SplitLines(s) ==
    LET i == IndexOf(s, <<"\n">>)
    IN  IF i < 0 THEN <<s>>
        ELSE <<Substring(s, 0, IF i > 0 /\ s[i] = "\r" THEN i - 1 ELSE i)>>
                 \o SplitLines(SubstringFrom(s, i + 1))

IsSpace(c) == c \in {" ", "\t", "\n", "\r"}

RECURSIVE TrimStart(_)
TrimStart(s) == IF s # <<>> /\ IsSpace(Head(s)) THEN TrimStart(Tail(s)) ELSE s

RECURSIVE TrimEnd(_)
TrimEnd(s) ==
    IF s # <<>> /\ IsSpace(s[Len(s)]) THEN TrimEnd(SubSeq(s, 1, Len(s) - 1)) ELSE s

\* String.prototype.trim()
Trim(s) == TrimEnd(TrimStart(s))

Digits == <<"0", "1", "2", "3", "4", "5", "6", "7", "8", "9">>

IsDigit(c) == \E d \in 1..10 : Digits[d] = c

DigitVal(c) == (CHOOSE d \in 1..10 : Digits[d] = c) - 1

\* A JavaScript number that may be NaN
NaN == [nan |-> TRUE, n |-> 0]

Num(n) == [nan |-> FALSE, n |-> n]

RECURSIVE DigitsValue(_, _)
DigitsValue(s, acc) ==
    IF s = <<>> \/ ~IsDigit(Head(s)) THEN acc
    ELSE DigitsValue(Tail(s), 10 * acc + DigitVal(Head(s)))

\* parseInt(s): leading white space skipped, an optional sign, then the
\* longest run of decimal digits; NaN when there is no digit
ParseInt(s) ==
    LET t == TrimStart(s)
        neg == t # <<>> /\ Head(t) = "-"
        u == IF t # <<>> /\ Head(t) \in {"-", "+"} THEN Tail(t) ELSE t
    IN  IF u = <<>> \/ ~IsDigit(Head(u)) THEN NaN
        ELSE Num(IF neg THEN 0 - DigitsValue(u, 0) ELSE DigitsValue(u, 0))

(***************************************************************************)
(* JavaScript Date. A time value is a number of minutes since the epoch    *)
(* (every date the code builds has zero seconds), or invalid.              *)
(***************************************************************************)

\* def is FALSE for a field that holds no Date at all (undefined)
UndefinedDate == [def |-> FALSE, valid |-> FALSE, t |-> 0]

InvalidDate == [def |-> TRUE, valid |-> FALSE, t |-> 0]

ValidDate(t) == [def |-> TRUE, valid |-> TRUE, t |-> t]

MinutesPerDay == 24 * 60

\* Days since 1970-01-01 of the civil date y-m-d (m in 1..12)
DaysFromCivil(y, m, d) ==
    LET yy == IF m <= 2 THEN y - 1 ELSE y
        era == yy \div 400
        yoe == yy - era * 400
        mp == IF m > 2 THEN m - 3 ELSE m + 9
        doy == (153 * mp + 2) \div 5 + d - 1
        doe == yoe * 365 + yoe \div 4 - yoe \div 100 + doy
    IN  era * 146097 + doe - 719468

\* The civil date <<y, m, d>> of a day number
CivilFromDays(z) ==
    LET zz == z + 719468
        era == zz \div 146097
        doe == zz - era * 146097
        yoe == (doe - doe \div 1460 + doe \div 36524 - doe \div 146096) \div 365
        doy == doe - (365 * yoe + yoe \div 4 - yoe \div 100)
        mp == (5 * doy + 2) \div 153
        d == doy - (153 * mp + 2) \div 5 + 1
        m == IF mp < 10 THEN mp + 3 ELSE mp - 9
        y == yoe + era * 400
    IN  <<IF m <= 2 THEN y + 1 ELSE y, m, d>>

\* MakeDay/MakeTime of ECMAScript: month is 0-based and, like day, hour and
\* minute, may lie outside its range; the excess carries over
MakeTime(year, month, day, hour, minute) ==
    LET y == year + month \div 12
        m == month % 12
    IN  (DaysFromCivil(y, m + 1, 1) + day - 1) * MinutesPerDay + hour * 60 + minute

\* A year 0..99 means 1900 + year in Date.UTC and in the Date constructor
FullYear(year) == IF year >= 0 /\ year <= 99 THEN 1900 + year ELSE year

\* new Date(Date.UTC(year, month, day, hour, minute)): invalid when an argument is NaN
DateUTC(year, month, day, hour, minute) ==
    IF year.nan \/ month.nan \/ day.nan \/ hour.nan \/ minute.nan THEN InvalidDate
    ELSE ValidDate(MakeTime(FullYear(year.n), month.n, day.n, hour.n, minute.n))

\* new Date(year, month, day): midnight in the device's time zone, which is
\* tz minutes ahead of UTC
DateLocal(year, month, day, tz) ==
    IF year.nan \/ month.nan \/ day.nan THEN InvalidDate
    ELSE ValidDate(MakeTime(FullYear(year.n), month.n, day.n, 0, 0) - tz)

\* An ISO date string is modelled by its fields: <<y, m, d, h, min>> is
\* "y-m-dTh:min:00.000Z", <<y, m, d>> is the date-only form "y-m-d", and
\* any other sequence is text that is not a date.
\* Date.prototype.toISOString() of a valid date (it throws on an invalid one)
ToISOString(date) ==
    LET days == date.t \div MinutesPerDay
        rest == date.t - days * MinutesPerDay
        c == CivilFromDays(days)
    IN  <<c[1], c[2], c[3], rest \div 60, rest % 60>>

\* new Date(string): the full form and the date-only form are both UTC
NewDate(str) ==
    IF Len(str) = 5 THEN ValidDate(MakeTime(str[1], str[2] - 1, str[3], str[4], str[5]))
    ELSE IF Len(str) = 3 THEN ValidDate(MakeTime(str[1], str[2] - 1, str[3], 0, 0))
    ELSE InvalidDate

\* a < b on Date objects: false when either is invalid (NaN compares false)
DateLess(a, b) == a.valid /\ b.valid /\ a.t < b.t

(***************************************************************************)
(* iCal parser (src/features/calendar/services/iCalParser.ts).             *)
(***************************************************************************)

\* the calls of parseICalString so far: the text and the events of each
VARIABLE icalRuns

S_BEGIN_VEVENT == <<"B", "E", "G", "I", "N", ":", "V", "E", "V", "E", "N", "T">>

S_END_VEVENT == <<"E", "N", "D", ":", "V", "E", "V", "E", "N", "T">>

S_UID == <<"U", "I", "D", ":">>

S_SUMMARY == <<"S", "U", "M", "M", "A", "R", "Y", ":">>

S_DTSTART == <<"D", "T", "S", "T", "A", "R", "T">>

S_DTEND == <<"D", "T", "E", "N", "D">>

S_DESCRIPTION == <<"D", "E", "S", "C", "R", "I", "P", "T", "I", "O", "N", ":">>

\* x - 1 on a JavaScript number
Minus1(x) == IF x.nan THEN NaN ELSE Num(x.n - 1)

\* parseICalDate(line); tz is the device's offset from UTC in minutes
parseICalDate(line, tz) ==
    LET colonIndex == IndexOf(line, <<":">>)
        dateStr == Trim(SubstringFrom(line, colonIndex + 1))
        year == ParseInt(Substring(dateStr, 0, 4))
        month == Minus1(ParseInt(Substring(dateStr, 4, 6)))
        day == ParseInt(Substring(dateStr, 6, 8))
    IN  IF Len(dateStr) > 8
        THEN DateUTC(year, month, day, ParseInt(Substring(dateStr, 9, 11)),
                     ParseInt(Substring(dateStr, 11, 13)))
        ELSE DateLocal(year, month, day, tz)

\* const event: Partial<ICalEvent> = {}
EmptyEvent ==
    [uid |-> Undefined, summary |-> Undefined, dtstart |-> UndefinedDate,
     dtend |-> UndefinedDate, description |-> Undefined]

\* the body of the loop over the lines of parseEventBlock
ParseLine(event, line, tz) ==
    IF StartsWith(line, S_UID) THEN [event EXCEPT !.uid = Trim(SubstringFrom(line, 4))]
    ELSE IF StartsWith(line, S_SUMMARY)
         THEN [event EXCEPT !.summary = Trim(SubstringFrom(line, 8))]
    ELSE IF StartsWith(line, S_DTSTART)
         THEN [event EXCEPT !.dtstart = parseICalDate(line, tz)]
    ELSE IF StartsWith(line, S_DTEND)
         THEN [event EXCEPT !.dtend = parseICalDate(line, tz)]
    ELSE IF StartsWith(line, S_DESCRIPTION)
         THEN [event EXCEPT !.description = Trim(SubstringFrom(line, 12))]
    ELSE event

RECURSIVE ParseLines(_, _, _)
ParseLines(event, lines, tz) ==
    IF lines = <<>> THEN event
    ELSE ParseLines(ParseLine(event, Head(lines), tz), Tail(lines), tz)

\* a string is truthy when it is defined and not empty
TruthyStr(s) == s # Undefined /\ s # <<>>

\* a mutant of parseEventBlock: the check of dtend is forgotten
Mutant_parseEventBlock(content, tz) ==
    LET event == ParseLines(EmptyEvent, SplitLines(content), tz)
    IN  IF TruthyStr(event.uid) /\ event.dtstart.def THEN <<event>> ELSE <<>>

\* parseEventBlock(content): <<event>>, or <<>> for null
parseEventBlock(content, tz) ==
    LET event == ParseLines(EmptyEvent, SplitLines(content), tz)
    IN  IF TruthyStr(event.uid) /\ event.dtstart.def /\ event.dtend.def
        THEN <<event>> ELSE <<>>

\* a mutant of ParseBlocks: the events are collected last block first
RECURSIVE Mutant_ParseBlocks(_, _, _)
Mutant_ParseBlocks(eventBlocks, i, tz) ==
    IF i > Len(eventBlocks) THEN <<>>
    ELSE LET block == eventBlocks[i]
             endIndex == IndexOf(block, S_END_VEVENT)
             eventContent == Substring(block, 0, endIndex)
         IN  Mutant_ParseBlocks(eventBlocks, i + 1, tz) \o parseEventBlock(eventContent, tz)

\* the loop of parseICalString from block i on (blocks are 1-based here, so
\* the code's i = 1 is the second element)
RECURSIVE ParseBlocks(_, _, _)
ParseBlocks(eventBlocks, i, tz) ==
    IF i > Len(eventBlocks) THEN <<>>
    ELSE LET block == eventBlocks[i]
             endIndex == IndexOf(block, S_END_VEVENT)
             eventContent == Substring(block, 0, endIndex)
         IN  parseEventBlock(eventContent, tz) \o ParseBlocks(eventBlocks, i + 1, tz)

\* a mutant of parseICalString: the events array is kept between the calls
Mutant_parseICalString(icalString, tz) ==
    (IF icalRuns = <<>> THEN <<>> ELSE icalRuns[Len(icalRuns)].events)
        \o ParseBlocks(Split(icalString, S_BEGIN_VEVENT), 2, tz)

parseICalString(icalString, tz) ==
    ParseBlocks(Split(icalString, S_BEGIN_VEVENT), 2, tz)

S_ReservaExterna ==
    <<"R", "e", "s", "e", "r", "v", "a", " ", "E", "x", "t", "e", "r", "n", "a">>

NoNumber == [def |-> FALSE, n |-> 0]

SomeNumber(n) == [def |-> TRUE, n |-> n]

\* the callback of events.map in iCalEventsToBookings
EventToBooking(event, source) ==
    [id |-> event.uid,
     propertyId |-> "default",
     guestName |-> IF TruthyStr(event.summary) THEN event.summary ELSE S_ReservaExterna,
     startDate |-> ToISOString(event.dtstart),
     endDate |-> ToISOString(event.dtend),
     source |-> source,
     status |-> "confirmed",
     totalPrice |-> NoNumber,
     notes |-> event.description]

\* a mutant of iCalEventsToBookings: an event with an invalid date is left
\* out and the others are converted
Mutant_iCalEventsToBookings(events, source) ==
    LET Valid(event) == event.dtstart.valid /\ event.dtend.valid
        kept == SelectSeq(events, Valid)
    IN  [threw |-> FALSE,
         value |-> [i \in 1..Len(kept) |-> EventToBooking(kept[i], source)]]

\* iCalEventsToBookings(events, source): toISOString throws a RangeError on
\* an invalid date, and the exception leaves the map
iCalEventsToBookings(events, source) ==
    IF \E i \in 1..Len(events) : ~events[i].dtstart.valid \/ ~events[i].dtend.valid
    THEN [threw |-> TRUE, value |-> <<>>]
    ELSE [threw |-> FALSE,
          value |-> [i \in 1..Len(events) |-> EventToBooking(events[i], source)]]

(***************************************************************************)
(* Inputs of the calendar model: the feeds a fetch can return, the         *)
(* bookings a screen can create, the device's time zone.                   *)
(***************************************************************************)

NL == <<"\n">>

S_VALUE_DATE == <<";", "V", "A", "L", "U", "E", "=", "D", "A", "T", "E">>

D_20240112 == <<"2", "0", "2", "4", "0", "1", "1", "2">>

D_20240114 == <<"2", "0", "2", "4", "0", "1", "1", "4">>

D_20240120 == <<"2", "0", "2", "4", "0", "1", "2", "0">>

D_20240122 == <<"2", "0", "2", "4", "0", "1", "2", "2">>

\* a VEVENT block as a booking platform writes it
VEvent(uid, dtstart, dtend, summary) ==
    S_BEGIN_VEVENT \o NL
    \o S_DTSTART \o S_VALUE_DATE \o <<":">> \o dtstart \o NL
    \o S_DTEND \o S_VALUE_DATE \o <<":">> \o dtend \o NL
    \o S_UID \o uid \o NL
    \o S_SUMMARY \o summary \o NL
    \o S_END_VEVENT \o NL

VCalendar(body) ==
    <<"B", "E", "G", "I", "N", ":", "V", "C", "A", "L", "E", "N", "D", "A", "R">> \o NL
    \o body
    \o <<"E", "N", "D", ":", "V", "C", "A", "L", "E", "N", "D", "A", "R">> \o NL

Uid1 == <<"u", "1">>

Uid2 == <<"u", "2">>

\* the response bodies the feed URL can serve
Feeds ==
    << VCalendar(VEvent(Uid1, D_20240112, D_20240114, <<"A", "n", "a">>)),
       VCalendar(VEvent(Uid2, D_20240120, D_20240122, <<>>)),
       VCalendar(VEvent(Uid1, D_20240112, D_20240114, <<"A", "n", "a">>)
                 \o VEvent(Uid2, <<"x">>, D_20240122, <<>>)) >>

\* minutes the device's clock is ahead of UTC
TzOffsets == {60, -300}

Sources == {"booking", "airbnb"}


\* the arguments the screens pass to addManualBooking
ManualInputs ==
    { [propertyId |-> "default", guestName |-> <<"A">>,
       startDate |-> <<2024, 1, 10, 0, 0>>, endDate |-> <<2024, 1, 15, 0, 0>>,
       status |-> "confirmed", totalPrice |-> SomeNumber(100), notes |-> Undefined] }

\* date ranges a caller passes to checkConflict whatever the store holds:
\* date-only strings as the calendar grid gives them, and an empty end field
FixedRanges == { <<<<2024, 1, 13>>, <<2024, 1, 16>>>>, <<<<2024, 1, 13>>, <<>>>> }

\* a date before, and one after, every booking of the model
EarlyDate == <<2023, 12, 1, 0, 0>>

LateDate == <<2024, 3, 1, 0, 0>>

(***************************************************************************)
(* Bounds of the model.                                                    *)
(***************************************************************************)

\* largest value of the clock (Date.now())
MaxClock == 1

\* addManualBooking is not called on a store that holds this many bookings
MaxBookings == 2

\* calls of syncFromUrl in one behaviour
MaxSyncs == 2

SyncIds == 1..MaxSyncs

VARIABLES
    bookings,       \* useCalendarStore: bookings
    lastSyncDate,   \* useCalendarStore: lastSyncDate (Null or a clock value)
    syncError,      \* useCalendarStore: syncError (Null or a message)
    isSyncing,      \* useBookingSync: isSyncing
    syncs,          \* the calls of syncFromUrl: position, closure, result
    conflict,       \* the last call of checkConflict: arguments and result
    now,            \* Date.now()
    tz,             \* the device's time zone
    parsed,         \* parseICalString(text) of every feed text, on this device
    icalText,       \* the text handed to parseICalString
    icalEvents,     \* what parseICalString returned for it (Null before the call)
    docXml,         \* word/document.xml of the picked file
    placeholders,   \* result of extractPlaceholdersFromTemplate (Null before the call)
    wordContent,    \* result of extractWordContentAsHtml (Null before the call)
    tplHtml,        \* the html argument of generatePdfFromTemplate
    entries,        \* Object.entries(variables): <<key, value>> in the map's order
    processedHtml,  \* processedHtml of generatePdfFromTemplate (Null before the call)
    dateLine,       \* the line handed to parseICalDate
    dateResult,     \* what parseICalDate returned for it (Null before the call)
    screen,         \* the screen that is mounted
    pc,             \* the await the screen's handler is at
    paramsId,       \* template fill screen: whether the route has an id
    template,       \* template fill screen: template (Null or a saved template)
    isLoading,      \* template fill screen, template editor: isLoading
    isGenerating,   \* template fill screen: isGenerating
    isScanning,     \* template debugger: isScanning
    alert,          \* the last Alert.alert (Null before any)
    rejection,      \* the error a handler's promise rejected with (Null: none)
    upload,         \* the call of uploadAndRecordDocument: position, arguments, result
    generatedDocuments, \* the rows of the table generated_documents
    edited,         \* the last call of updateBooking: its arguments (Null before any)
    newBooking,     \* calendar screens: the fields of the new-booking form
    table,          \* the table the statements go to
    rows,           \* the rows of that table
    reply,          \* the last statement: who issued it, what it was, data and error
    versions,       \* the rows of the table template_versions
    calls,          \* the calls of the template service: arguments, position, result
    auth,           \* useAuthStore: user, session, isLoading, isAuthenticated, error
    authCall,       \* the call of the auth store that is running or ran last
    nav,            \* segments[0] and who navigated there (user or layout)
    pending         \* RootLayoutNav: the navigation effect has to run

calVars == <<bookings, lastSyncDate, syncError, isSyncing, syncs, conflict, now, parsed>>

icalVars == <<icalText, icalEvents>>

docVars == <<docXml, placeholders, wordContent>>

pdfVars == <<tplHtml, entries, processedHtml>>

dateVars == <<dateLine, dateResult>>

\* the state of the operations that are modelled on their own
screenVars ==
    <<screen, pc, paramsId, template, isLoading, isGenerating, isScanning, alert, rejection>>

uploadVars == <<upload, generatedDocuments>>

\* the state of the later sections
formVars == <<newBooking>>

rlsVars == <<table, rows, reply>>

serviceVars == <<versions, calls>>

authVars == <<auth, authCall, nav, pending>>

laterVars == <<formVars, rlsVars, serviceVars, authVars>>

extraVars == <<edited, laterVars>>

auxVars == <<dateVars, icalRuns, screenVars, uploadVars, extraVars>>

\* what the calendar does not touch
otherVars == <<icalVars, docVars, pdfVars, auxVars>>

vars == <<calVars, tz, icalVars, docVars, pdfVars, auxVars>>

Null == <<>>

Some(x) == <<x>>

\* pc: the await the call is at; bookings: the list the call closed over;
\* feed: the response body it read (0: none); result: what it returned
IdleSync ==
    [pc |-> "idle", bookings |-> <<>>, source |-> "booking", feed |-> 0,
     result |-> [success |-> FALSE, newBookings |-> 0, errors |-> <<>>]]

\* the store as created, the hook before any call
CalInit ==
    /\ bookings = <<>>
    /\ lastSyncDate = Null
    /\ syncError = Null
    /\ isSyncing = FALSE
    /\ syncs = [s \in SyncIds |-> IdleSync]
    /\ conflict = Null
    /\ now = 0

\* no text is being parsed on its own
ICalIdle ==
    /\ icalText = <<>>
    /\ icalEvents = Null

\* no document is being scanned
DocIdle ==
    /\ docXml = <<>>
    /\ placeholders = Null
    /\ wordContent = Null

\* no document is being generated
PdfIdle ==
    /\ tplHtml = <<>>
    /\ entries = <<>>
    /\ processedHtml = Null

\* no date line is being parsed on its own
DateIdle ==
    /\ dateLine = <<>>
    /\ dateResult = Null

\* no screen of the template flow is mounted
ScreenIdle ==
    /\ screen = "none"
    /\ pc = "idle"
    /\ paramsId = FALSE
    /\ template = Null
    /\ isLoading = FALSE
    /\ isGenerating = FALSE
    /\ isScanning = FALSE
    /\ alert = Null
    /\ rejection = Null

\* uploadAndRecordDocument is not being called
UploadIdle ==
    /\ upload = Null
    /\ generatedDocuments = <<>>

\* no calendar screen is mounted
FormIdle ==
    /\ newBooking = Null

\* no statement is sent to the database
RlsIdle ==
    /\ table = "none"
    /\ rows = {}
    /\ reply = Null

\* the template service is not called
ServiceIdle ==
    /\ versions = {}
    /\ calls = <<>>

\* the root layout is not mounted
AuthIdle ==
    /\ auth = Null
    /\ authCall = Null
    /\ nav = Null
    /\ pending = FALSE

LaterIdle == FormIdle /\ RlsIdle /\ ServiceIdle /\ AuthIdle

\* nothing of the later sections has happened
ExtraIdle ==
    /\ edited = Null
    /\ LaterIdle

AuxIdle == DateIdle /\ icalRuns = <<>> /\ ScreenIdle /\ UploadIdle /\ ExtraIdle

Init ==
    /\ CalInit
    /\ tz \in TzOffsets
    /\ parsed = [f \in 1..Len(Feeds) |-> parseICalString(Feeds[f], tz)]
    /\ ICalIdle
    /\ DocIdle
    /\ PdfIdle
    /\ AuxIdle

(***************************************************************************)
(* useCalendarStore (src/core/stores/calendarStore.ts).                    *)
(***************************************************************************)

\* addBooking: [...state.bookings, booking]
\* a mutant of addBooking: the store refuses a booking that overlaps one it has
Mutant_addBooking(list, booking) ==
    IF \E k \in 1..Len(list) :
           /\ DateLess(NewDate(booking.startDate), NewDate(list[k].endDate))
           /\ DateLess(NewDate(list[k].startDate), NewDate(booking.endDate))
    THEN list
    ELSE Append(list, booking)

addBooking(list, booking) == Append(list, booking)

(***************************************************************************)
(* useBookingSync (src/features/calendar/components/AccessibleDay.tsx).    *)
(*                                                                         *)
(* The hook reads `bookings` from the store when it renders, and           *)
(* syncFromUrl and checkConflict close over that value. A handler is       *)
(* invoked on the latest render, so the closure of a call is the store's   *)
(* list at the moment of the call; it does not change while the call       *)
(* awaits.                                                                 *)
(***************************************************************************)

IsManual(b) == b.source = "manual"

\* bookings.filter((b) => b.source === 'manual')
manualBookings(list) == SelectSeq(list, IsManual)

\* a mutant of updatedBookings: only the bookings of the synced source are
\* replaced, those of another platform are kept
Mutant_updatedBookings(closure, externalBookings) ==
    LET Kept(b) == \A i \in 1..Len(externalBookings) : externalBookings[i].source # b.source
    IN  SelectSeq(closure, Kept) \o externalBookings

\* a mutant of updatedBookings: a response is dropped when the store is no
\* longer the list the call read
Mutant_updatedBookingsIfUnchanged(closure, externalBookings) ==
    IF bookings # closure THEN bookings
    ELSE manualBookings(closure) \o externalBookings

\* a mutant of updatedBookings: a merge by identity, where a stored booking
\* whose id is in the feed is kept as it is
Mutant_updatedBookingsById(closure, externalBookings) ==
    LET Stored(b) == IF \E k \in 1..Len(bookings) : bookings[k].id = b.id
                     THEN bookings[CHOOSE k \in 1..Len(bookings) : bookings[k].id = b.id]
                     ELSE b
    IN  manualBookings(closure)
            \o [i \in 1..Len(externalBookings) |-> Stored(externalBookings[i])]

\* [...manualBookings, ...externalBookings]
updatedBookings(closure, externalBookings) == manualBookings(closure) \o externalBookings

\* externalBookings.filter((b) => !existingIds.has(b.id)).length
newItemsLength(closure, externalBookings) ==
    LET existingIds == {closure[i].id : i \in 1..Len(closure)}
        IsNew(b) == b.id \notin existingIds
    IN  Len(SelectSeq(externalBookings, IsNew))

\* syncFromUrl up to its first await: setIsSyncing(true); fetch(icalUrl)
SyncStart(s, source) ==
    /\ syncs[s].pc = "idle"
    /\ \A r \in SyncIds : r < s => syncs[r].pc # "idle"
    /\ isSyncing' = TRUE
    /\ syncs' = [syncs EXCEPT ![s] = [IdleSync EXCEPT !.pc = "fetch",
                                                      !.bookings = bookings,
                                                      !.source = source]]
    /\ conflict' = Null
    /\ UNCHANGED <<bookings, lastSyncDate, syncError, now, tz, parsed, otherVars>>

\* a mutant of SyncFail: the catch block records the message and fetches again
Mutant_SyncFail(s, errorMessage) ==
    /\ lastSyncDate' = Null
    /\ syncError' = Some(errorMessage)
    /\ syncs' = [syncs EXCEPT ![s].pc = "fetch"]
    /\ conflict' = Null
    /\ UNCHANGED <<bookings, isSyncing, now, tz, parsed, otherVars>>

\* a mutant of SyncFail: the catch block keeps the date of the last sync
Mutant_SyncFailKeepsDate(s, errorMessage) ==
    /\ syncError' = Some(errorMessage)
    /\ isSyncing' = FALSE
    /\ syncs' = [syncs EXCEPT ![s].pc = "done", ![s].bookings = <<>>,
                              ![s].result = [success |-> FALSE, newBookings |-> 0,
                                             errors |-> <<errorMessage>>]]
    /\ conflict' = Null
    /\ UNCHANGED <<bookings, lastSyncDate, now, tz, parsed, otherVars>>

\* the catch and finally blocks of syncFromUrl
SyncFail(s, errorMessage) ==
    /\ lastSyncDate' = Null
    /\ syncError' = Some(errorMessage)
    /\ isSyncing' = FALSE
    /\ syncs' = [syncs EXCEPT ![s].pc = "done", ![s].bookings = <<>>,
                              ![s].result = [success |-> FALSE, newBookings |-> 0,
                                             errors |-> <<errorMessage>>]]
    /\ conflict' = Null
    /\ UNCHANGED <<bookings, now, tz, parsed, otherVars>>

\* the fetch resolves: a response that is not ok throws, an ok one is read
FetchResolved(s, ok) ==
    /\ syncs[s].pc = "fetch"
    /\ IF ok
       THEN /\ syncs' = [syncs EXCEPT ![s].pc = "text"]
            /\ conflict' = Null
            /\ UNCHANGED <<bookings, lastSyncDate, syncError, isSyncing, now, tz, parsed, otherVars>>
       ELSE SyncFail(s, "Error de red: 500")

\* the fetch, or the reading of the body, rejects
AwaitRejected(s) ==
    /\ syncs[s].pc \in {"fetch", "text"}
    /\ SyncFail(s, "Network request failed")

\* response.text() resolves with feed f: parse, convert, merge, write
TextResolved(s, f) ==
    /\ syncs[s].pc = "text"
    /\ LET events == parsed[f]
           converted == iCalEventsToBookings(events, syncs[s].source)
           externalBookings == converted.value
       IN  IF converted.threw
           THEN SyncFail(s, "Invalid time value")
           ELSE /\ bookings' = updatedBookings(syncs[s].bookings, externalBookings)
                /\ lastSyncDate' = Some(now)
                /\ syncError' = Null
                /\ isSyncing' = FALSE
                /\ syncs' = [syncs EXCEPT
                       ![s].pc = "done", ![s].bookings = <<>>, ![s].feed = f,
                       ![s].result =
                           [success |-> TRUE,
                            newBookings |-> newItemsLength(syncs[s].bookings, externalBookings),
                            errors |-> <<>>]]
                /\ conflict' = Null
                /\ UNCHANGED <<now, tz, parsed, otherVars>>

RECURSIVE DecimalString(_)
DecimalString(n) ==
    IF n < 10 THEN <<Digits[n + 1]>>
    ELSE DecimalString(n \div 10) \o <<Digits[(n % 10) + 1]>>

\* `manual-${Date.now()}`
ManualId(t) == <<"m", "a", "n", "u", "a", "l", "-">> \o DecimalString(t)

\* the booking addManualBooking builds: { ...booking, id, source: 'manual' }
NewManualBooking(booking, t) ==
    [id |-> ManualId(t), propertyId |-> booking.propertyId,
     guestName |-> booking.guestName, startDate |-> booking.startDate,
     endDate |-> booking.endDate, source |-> "manual", status |-> booking.status,
     totalPrice |-> booking.totalPrice, notes |-> booking.notes]

AddManualBooking(booking) ==
    /\ Len(bookings) < MaxBookings
    /\ bookings' = addBooking(bookings, NewManualBooking(booking, now))
    /\ conflict' = Null
    /\ UNCHANGED <<lastSyncDate, syncError, isSyncing, syncs, now, tz, parsed, otherVars>>

\* a mutant of Overlaps: the intervals are taken as closed
Mutant_Overlaps(start, end, booking) ==
    /\ ~DateLess(NewDate(booking.endDate), start)
    /\ ~DateLess(end, NewDate(booking.startDate))
    /\ start.valid /\ end.valid

\* the overlap test of checkConflict on one booking
Overlaps(start, end, booking) ==
    /\ DateLess(start, NewDate(booking.endDate))
    /\ DateLess(NewDate(booking.startDate), end)

\* the loop of checkConflict: <<booking>> for the booking returned, <<>> for null
RECURSIVE ConflictScan(_, _, _, _)
ConflictScan(list, start, end, excludeId) ==
    IF list = <<>> THEN <<>>
    ELSE IF TruthyStr(excludeId) /\ Head(list).id = excludeId
         THEN ConflictScan(Tail(list), start, end, excludeId)
    ELSE IF Overlaps(start, end, Head(list)) THEN <<Head(list)>>
    ELSE ConflictScan(Tail(list), start, end, excludeId)

RECURSIVE Reverse(_)
Reverse(list) == IF list = <<>> THEN <<>> ELSE Reverse(Tail(list)) \o <<Head(list)>>

\* a mutant of checkConflict: the list is scanned from its end
Mutant_checkConflict(list, startDate, endDate, excludeId) ==
    ConflictScan(Reverse(list), NewDate(startDate), NewDate(endDate), excludeId)

checkConflict(list, startDate, endDate, excludeId) ==
    ConflictScan(list, NewDate(startDate), NewDate(endDate), excludeId)

CheckConflict(startDate, endDate, excludeId) ==
    /\ conflict' = Some([startDate |-> startDate, endDate |-> endDate,
                         excludeId |-> excludeId,
                         result |-> checkConflict(bookings, startDate, endDate, excludeId)])
    /\ UNCHANGED <<bookings, lastSyncDate, syncError, isSyncing, syncs, now, tz, parsed, otherVars>>

\* time passes
Tick ==
    /\ now < MaxClock
    /\ now' = now + 1
    /\ conflict' = Null
    /\ UNCHANGED <<bookings, lastSyncDate, syncError, isSyncing, syncs, tz, parsed, otherVars>>

\* the ranges checkConflict is called with: the fixed ones, and for every
\* stored booking the range that ends where it starts and the range that
\* starts where it ends
CheckRanges ==
    FixedRanges
    \cup {<<EarlyDate, bookings[i].startDate>> : i \in 1..Len(bookings)}
    \cup {<<bookings[i].endDate, LateDate>> : i \in 1..Len(bookings)}

StoredIds == {bookings[i].id : i \in 1..Len(bookings)}

Next ==
    \/ \E s \in SyncIds, source \in Sources : SyncStart(s, source)
    \/ \E s \in SyncIds, ok \in BOOLEAN : FetchResolved(s, ok)
    \/ \E s \in SyncIds : AwaitRejected(s)
    \/ \E s \in SyncIds, f \in 1..Len(Feeds) : TextResolved(s, f)
    \/ \E booking \in ManualInputs : AddManualBooking(booking)
    \/ \E range \in CheckRanges : CheckConflict(range[1], range[2], Undefined)
    \/ \E range \in FixedRanges, excludeId \in StoredIds :
          CheckConflict(range[1], range[2], excludeId)
    \/ Tick

Spec == Init /\ [][Next]_vars

(***************************************************************************)
(* The parser on its own: parseICalString applied to a text.               *)
(***************************************************************************)

\* VEVENT blocks in a text drawn for the parser
MaxBlocks == 2

\* a line of a block: a property name, its value, a line break
PropLine(name, value) == name \o <<":">> \o value \o NL

\* the uid line of the k-th block: absent, "UID:u<k>", or "UID:" without a value
UidLines(k) == { <<>>, PropLine(<<"U", "I", "D">>, <<"u">> \o DecimalString(k)),
                 PropLine(<<"U", "I", "D">>, <<" ">>) }

\* the DTSTART line: absent, a date, or a value that is no date
StartLines == { <<>>, PropLine(S_DTSTART, D_20240112), PropLine(S_DTSTART, <<"x">>) }

\* the DTEND line: absent, or a date
EndLines == { <<>>, PropLine(S_DTEND \o S_VALUE_DATE, D_20240114) }

\* property lines that belong to no block
StrayLines ==
    PropLine(<<"U", "I", "D">>, <<"u", "0">>) \o PropLine(S_DTSTART, D_20240120)
    \o PropLine(S_DTEND, D_20240122)

\* how a block ends: END:VEVENT, END:VEVENT followed by stray property
\* lines, or not at all (a truncated or nested block)
BlockEnds == { S_END_VEVENT \o NL, S_END_VEVENT \o NL \o StrayLines, <<>> }

\* the k-th VEVENT block of a text
Blocks(k) ==
    { S_BEGIN_VEVENT \o NL \o u \o ds \o de \o e :
        u \in UidLines(k), ds \in StartLines, de \in EndLines, e \in BlockEnds }

\* texts of exactly n blocks after the given prefix
RECURSIVE TextsFrom(_, _, _)
TextsFrom(prefix, k, n) ==
    IF k > n THEN {prefix}
    ELSE UNION { TextsFrom(prefix \o b, k + 1, n) : b \in Blocks(k) }

\* the texts parseICalString is applied to: the empty text, and a calendar
\* header with stray property lines followed by up to MaxBlocks blocks
ICalTexts ==
    { <<>> } \cup UNION { TextsFrom(StrayLines, 1, n) : n \in 0..MaxBlocks }

InitICal ==
    /\ CalInit
    /\ tz \in TzOffsets
    /\ parsed = <<>>
    /\ icalText \in ICalTexts
    /\ icalEvents = Null
    /\ DocIdle
    /\ PdfIdle
    /\ AuxIdle

ParseICal ==
    /\ icalEvents = Null
    /\ icalEvents' = Some(parseICalString(icalText, tz))
    /\ UNCHANGED <<calVars, tz, icalText, docVars, pdfVars, auxVars>>

NextICal == ParseICal

SpecICal == InitICal /\ [][NextICal]_vars

(***************************************************************************)
(* Regular expressions of the template code, as scans over positions.      *)
(***************************************************************************)

Letters ==
    {"a", "b", "c", "d", "e", "f", "g", "h", "i", "j", "k", "l", "m",
     "n", "o", "p", "q", "r", "s", "t", "u", "v", "w", "x", "y", "z",
     "A", "B", "C", "D", "E", "F", "G", "H", "I", "J", "K", "L", "M",
     "N", "O", "P", "Q", "R", "S", "T", "U", "V", "W", "X", "Y", "Z"}

\* [a-zA-Z_]
IsIdentStart(c) == c \in Letters \/ c = "_"

\* [a-zA-Z0-9_]
IsIdentChar(c) == IsIdentStart(c) \/ IsDigit(c)

\* [a-zA-Z0-9_]* from the 0-based position i, greedy: the position after it
RECURSIVE IdentEnd(_, _)
IdentEnd(s, i) ==
    IF i < Len(s) /\ IsIdentChar(s[i + 1]) THEN IdentEnd(s, i + 1) ELSE i

\* /\{([a-zA-Z_][a-zA-Z0-9_]*)\}/ tried at the 0-based position i: the
\* position after the match, -1 when it does not match there
PlaceholderEnd(s, i) ==
    IF i + 2 <= Len(s) /\ s[i + 1] = "{" /\ IsIdentStart(s[i + 2])
    THEN LET e == IdentEnd(s, i + 1)
         IN  IF e < Len(s) /\ s[e + 1] = "}" THEN e + 1 ELSE -1
    ELSE -1

\* a mutant of PushUnique: a name is pushed even if the list has it
Mutant_PushUnique(matches, varName) == Append(matches, varName)

\* if (!matches.includes(varName)) matches.push(varName)
PushUnique(matches, varName) ==
    IF \E k \in 1..Len(matches) : matches[k] = varName THEN matches
    ELSE Append(matches, varName)

\* while ((match = regex.exec(text)) !== null) with the global placeholder
\* expression: lastIndex is where the next search starts, i the next brace
\* and end the position after the match that starts there (-1: no match)
RECURSIVE ScanPlaceholders(_, _, _)
ScanAt(text, i, end, matches) ==
    IF i < 0 THEN matches
    ELSE IF end < 0 THEN ScanPlaceholders(text, i + 1, matches)
    ELSE ScanPlaceholders(text, end, PushUnique(matches, Substring(text, i + 1, end - 1)))

ScanFrom(text, i, matches) ==
    ScanAt(text, i, IF i < 0 THEN -1 ELSE PlaceholderEnd(text, i), matches)

ScanPlaceholders(text, lastIndex, matches) ==
    ScanFrom(text, IndexOfFrom(text, <<"{">>, lastIndex), matches)

\* s.replace(/<[^>]+>/g, r), from the 0-based position i
RECURSIVE ReplaceTags(_, _, _)
ReplaceTags(s, i, r) ==
    IF i >= Len(s) THEN <<>>
    ELSE IF s[i + 1] = "<" /\ IndexOfFrom(s, <<">">>, i + 1) > i + 1
         THEN r \o ReplaceTags(s, IndexOfFrom(s, <<">">>, i + 1) + 1, r)
         ELSE <<s[i + 1]>> \o ReplaceTags(s, i + 1, r)

\* \s+ from the 0-based position i: the position after it
RECURSIVE SkipSpaces(_, _)
SkipSpaces(s, i) ==
    IF i < Len(s) /\ IsSpace(s[i + 1]) THEN SkipSpaces(s, i + 1) ELSE i

\* s.replace(/\s+/g, ' '), from the 0-based position i
RECURSIVE CollapseSpaces(_, _)
CollapseSpaces(s, i) ==
    IF i >= Len(s) THEN <<>>
    ELSE IF IsSpace(s[i + 1])
         THEN <<" ">> \o CollapseSpaces(s, SkipSpaces(s, i))
         ELSE <<s[i + 1]>> \o CollapseSpaces(s, i + 1)

\* /open[^>]*>([\s\S]*?)close/ tried at the 0-based position i:
\* <<start of the group, end of the group, end of the match>>, or <<>>
ElementAt(s, open, close, i) ==
    IF ~MatchAt(s, open, i) THEN <<>>
    ELSE LET gt == IndexOfFrom(s, <<">">>, i + Len(open))
         IN  IF gt < 0 THEN <<>>
             ELSE LET c == IndexOfFrom(s, close, gt + 1)
                  IN  IF c < 0 THEN <<>> ELSE <<gt + 1, c, c + Len(close)>>

S_w_t == <<"<", "w", ":", "t">>

S_w_t_close == <<"<", "/", "w", ":", "t", ">">>

\* /<w:t[^>]*>([^<]*)<\/w:t>/ tried at the 0-based position i
TextAt(s, i) ==
    IF ~MatchAt(s, S_w_t, i) THEN <<>>
    ELSE LET gt == IndexOfFrom(s, <<">">>, i + Len(S_w_t))
         IN  IF gt < 0 THEN <<>>
             ELSE LET lt == IndexOfFrom(s, <<"<">>, gt + 1)
                  IN  IF lt >= 0 /\ MatchAt(s, S_w_t_close, lt)
                      THEN <<gt + 1, lt, lt + Len(S_w_t_close)>>
                      ELSE <<>>

\* the groups of the successive matches of the w:t expression: i is the
\* next position that has <w:t, m the match there
RECURSIVE TextMatches(_, _)
TextMatchesAt(xml, i, m) ==
    IF i < 0 THEN <<>>
    ELSE IF m = <<>> THEN TextMatches(xml, i + 1)
    ELSE <<Substring(xml, m[1], m[2])>> \o TextMatches(xml, m[3])

TextMatchesFrom(xml, i) ==
    TextMatchesAt(xml, i, IF i < 0 THEN <<>> ELSE TextAt(xml, i))

TextMatches(xml, lastIndex) ==
    TextMatchesFrom(xml, IndexOfFrom(xml, S_w_t, lastIndex))

\* text.replace(/c/g, r) for a character c
RECURSIVE ReplaceChar(_, _, _)
ReplaceChar(text, c, r) ==
    IF text = <<>> THEN <<>>
    ELSE (IF Head(text) = c THEN r ELSE <<Head(text)>>)
             \o ReplaceChar(Tail(text), c, r)

(***************************************************************************)
(* Template service (extractWordContentAsHtml, generatePdfFromTemplate)    *)
(* and extractPlaceholdersFromTemplate of the contract builder.            *)
(***************************************************************************)

escapeHtml(text) ==
    ReplaceChar(
        ReplaceChar(
            ReplaceChar(
                ReplaceChar(text, "&", <<"&", "a", "m", "p", ";">>),
                "<", <<"&", "l", "t", ";">>),
            ">", <<"&", "g", "t", ";">>),
        "\"", <<"&", "q", "u", "o", "t", ";">>)

RECURSIVE Concat(_)
Concat(parts) == IF parts = <<>> THEN <<>> ELSE Head(parts) \o Concat(Tail(parts))

RECURSIVE ConcatEscaped(_)
ConcatEscaped(parts) ==
    IF parts = <<>> THEN <<>>
    ELSE escapeHtml(Head(parts)) \o ConcatEscaped(Tail(parts))

S_w_r == <<"<", "w", ":", "r">>

S_w_r_close == <<"<", "/", "w", ":", "r", ">">>

S_w_p == <<"<", "w", ":", "p">>

S_w_p_close == <<"<", "/", "w", ":", "p", ">">>

Wrap(tag, formattedText) ==
    <<"<">> \o tag \o <<">">> \o formattedText \o <<"<", "/">> \o tag \o <<">">>

\* if (flag) formattedText = `<tag>${formattedText}</tag>`
WrapIf(flag, tag, formattedText) ==
    IF flag THEN Wrap(tag, formattedText) ELSE formattedText

\* a mutant of FormatText: no element is put around the text of a run
Mutant_FormatText(isBold, isItalic, isUnderline, text) == escapeHtml(text)

\* parseRuns, the body of the loop: what a run with this text adds
FormatText(isBold, isItalic, isUnderline, text) ==
    IF text = <<>> THEN <<>>
    ELSE WrapIf(isBold, <<"b">>,
             WrapIf(isItalic, <<"i">>,
                 WrapIf(isUnderline, <<"u">>, escapeHtml(text))))

HasOneOf(runContent, closed, open) ==
    Includes(runContent, closed) \/ Includes(runContent, open)

FormatRun(runContent) ==
    FormatText(HasOneOf(runContent, <<"<", "w", ":", "b", "/", ">">>, <<"<", "w", ":", "b", " ">>),
               HasOneOf(runContent, <<"<", "w", ":", "i", "/", ">">>, <<"<", "w", ":", "i", " ">>),
               Includes(runContent, <<"<", "w", ":", "u", " ">>),
               Concat(TextMatches(runContent, 0)))

\* parseRuns, the loop over the matches of the w:r expression: i is the
\* next position that has <w:r, m the match there
RECURSIVE ParseRunsFrom(_, _, _)
ParseRunsAt(paragraphXml, i, m, result) ==
    IF i < 0 THEN result
    ELSE IF m = <<>> THEN ParseRunsFrom(paragraphXml, i + 1, result)
    ELSE ParseRunsFrom(paragraphXml, m[3],
             result \o FormatRun(Substring(paragraphXml, m[1], m[2])))

ParseRunsNext(paragraphXml, i, result) ==
    ParseRunsAt(paragraphXml, i,
        IF i < 0 THEN <<>> ELSE ElementAt(paragraphXml, S_w_r, S_w_r_close, i),
        result)

ParseRunsFrom(paragraphXml, lastIndex, result) ==
    ParseRunsNext(paragraphXml, IndexOfFrom(paragraphXml, S_w_r, lastIndex), result)

\* if (!result) the text of the w:t elements of the whole paragraph
OrDirectText(result, paragraphXml) ==
    IF result = <<>> THEN ConcatEscaped(TextMatches(paragraphXml, 0)) ELSE result

parseRuns(paragraphXml) ==
    OrDirectText(ParseRunsFrom(paragraphXml, 0, <<>>), paragraphXml)

Alignment(paragraphContent) ==
    IF Includes(paragraphContent, <<"<", "w", ":", "j", "c", " ", "w", ":", "v", "a", "l", "=", "\"", "c", "e", "n", "t", "e", "r", "\"">>)
    THEN <<"t", "e", "x", "t", "-", "a", "l", "i", "g", "n", ":", " ", "c", "e", "n", "t", "e", "r", ";">>
    ELSE IF Includes(paragraphContent, <<"<", "w", ":", "j", "c", " ", "w", ":", "v", "a", "l", "=", "\"", "r", "i", "g", "h", "t", "\"">>)
    THEN <<"t", "e", "x", "t", "-", "a", "l", "i", "g", "n", ":", " ", "r", "i", "g", "h", "t", ";">>
    ELSE IF Includes(paragraphContent, <<"<", "w", ":", "j", "c", " ", "w", ":", "v", "a", "l", "=", "\"", "b", "o", "t", "h", "\"">>)
    THEN <<"t", "e", "x", "t", "-", "a", "l", "i", "g", "n", ":", " ", "j", "u", "s", "t", "i", "f", "y", ";">>
    ELSE <<>>

Style(alignment) ==
    IF alignment # <<>> THEN <<" ", "s", "t", "y", "l", "e", "=", "\"">> \o alignment \o <<"\"">> ELSE <<>>

ParagraphOf(alignment, runs) ==
    IF Trim(runs) # <<>>
    THEN <<"<", "p">> \o Style(alignment) \o <<">">> \o runs \o <<"<", "/", "p", ">">> \o <<"\n">>
    ELSE <<"<", "p", ">", "<", "b", "r", ">", "<", "/", "p", ">">> \o <<"\n">>

\* parseWordXmlToEditableHtml, the body of the loop: the html of a paragraph
ParagraphHtml(paragraphContent) ==
    ParagraphOf(Alignment(paragraphContent), parseRuns(paragraphContent))

\* parseWordXmlToEditableHtml, the loop over the matches of the w:p
\* expression: i is the next position that has <w:p, m the match there
RECURSIVE ParseParagraphsFrom(_, _, _)
ParseParagraphsAt(xmlContent, i, m, html) ==
    IF i < 0 THEN html
    ELSE IF m = <<>> THEN ParseParagraphsFrom(xmlContent, i + 1, html)
    ELSE ParseParagraphsFrom(xmlContent, m[3],
             html \o ParagraphHtml(Substring(xmlContent, m[1], m[2])))

ParseParagraphsNext(xmlContent, i, html) ==
    ParseParagraphsAt(xmlContent, i,
        IF i < 0 THEN <<>> ELSE ElementAt(xmlContent, S_w_p, S_w_p_close, i),
        html)

ParseParagraphsFrom(xmlContent, lastIndex, html) ==
    ParseParagraphsNext(xmlContent, IndexOfFrom(xmlContent, S_w_p, lastIndex), html)

\* if (!html.trim()) the text of the whole body, tags replaced by spaces
OrPlainText(html, xmlContent) ==
    IF Trim(html) = <<>>
    THEN <<"<", "p", ">">>
             \o escapeHtml(Trim(CollapseSpaces(ReplaceTags(xmlContent, 0, <<" ">>), 0)))
             \o <<"<", "/", "p", ">">>
    ELSE html

parseWordXmlToEditableHtml(xmlContent) ==
    OrPlainText(ParseParagraphsFrom(xmlContent, 0, <<>>), xmlContent)

extractVariablesFromHtml(html) == ScanPlaceholders(html, 0, <<>>)

\* zip.file('word/document.xml') of a package without that part
NullFile == <<"null">>

\* what an async function settled with
Returned(value) == [threw |-> FALSE, message |-> "", value |-> value]

Threw(message) == [threw |-> TRUE, message |-> message, value |-> <<>>]

HtmlAndVariables(html) ==
    [html |-> html, variables |-> extractVariablesFromHtml(html)]

extractWordContentAsHtml(documentXml) ==
    IF documentXml = NullFile
    THEN Threw("No se encontró contenido en el documento Word")
    ELSE Returned(HtmlAndVariables(parseWordXmlToEditableHtml(documentXml)))

\* a mutant of plainText: the tags are left in the text that is scanned
Mutant_plainText(xmlContent) == xmlContent

\* extractPlaceholdersFromTemplate: xmlContent.replace(/<[^>]+>/g, '')
plainText(xmlContent) == ReplaceTags(xmlContent, 0, <<>>)

\* a mutant of extractPlaceholdersFromTemplate: a package without
\* word/document.xml has no placeholders
Mutant_extractPlaceholdersFromTemplate(documentXml) ==
    IF documentXml = NullFile
    THEN Returned(<<>>)
    ELSE Returned(ScanPlaceholders(plainText(documentXml), 0, <<>>))

extractPlaceholdersFromTemplate(documentXml) ==
    IF documentXml = NullFile
    THEN Threw("No se encontró document.xml en el archivo")
    ELSE Returned(ScanPlaceholders(plainText(documentXml), 0, <<>>))

\* the character U+0060, which a string of this module cannot hold
Grave == "grave"

\* GetSubstitution of String.prototype.replace for an expression without
\* groups: $$ is a dollar sign, $& the match, $ and a grave accent the text before
\* the match, $' the text after it; any other character stands for itself
RECURSIVE GetSubstitution(_, _, _, _, _)
GetSubstitution(matched, str, position, replacement, i) ==
    IF i >= Len(replacement) THEN <<>>
    ELSE IF replacement[i + 1] = "$" /\ i + 2 <= Len(replacement)
                /\ replacement[i + 2] \in {"$", "&", Grave, "'"}
         THEN (CASE replacement[i + 2] = "$" -> <<"$">>
                 [] replacement[i + 2] = "&" -> matched
                 [] replacement[i + 2] = Grave -> Substring(str, 0, position)
                 [] OTHER -> SubstringFrom(str, position + Len(matched)))
                  \o GetSubstitution(matched, str, position, replacement, i + 2)
         ELSE <<replacement[i + 1]>>
                  \o GetSubstitution(matched, str, position, replacement, i + 1)

\* str.replace(new RegExp('\\{' + key + '\\}', 'g'), replacement) for a key that
\* is an identifier: the expression matches the text {key} and nothing else
RECURSIVE ReplaceAllFrom(_, _, _, _)
ReplaceAllFrom(str, pattern, replacement, lastIndex) ==
    LET position == IndexOfFrom(str, pattern, lastIndex)
    IN  IF position < 0 THEN SubstringFrom(str, lastIndex)
        ELSE Substring(str, lastIndex, position)
                 \o GetSubstitution(pattern, str, position, replacement, 0)
                 \o ReplaceAllFrom(str, pattern, replacement, position + Len(pattern))

Token(key) == <<"{">> \o key \o <<"}">>

\* a mutant of ReplaceVariables: what is left of a placeholder after the
\* loop loses its opening brace
RECURSIVE Mutant_ReplaceVariables(_, _)
Mutant_ReplaceVariables(html, keyValues) ==
    IF keyValues = <<>> THEN ReplaceChar(html, "{", <<>>)
    ELSE Mutant_ReplaceVariables(
             ReplaceAllFrom(html, Token(Head(keyValues)[1]),
                            escapeHtml(Head(keyValues)[2]), 0),
             Tail(keyValues))

\* generatePdfFromTemplate: for (const [key, value] of Object.entries(variables))
RECURSIVE ReplaceVariables(_, _)
ReplaceVariables(html, keyValues) ==
    IF keyValues = <<>> THEN html
    ELSE ReplaceVariables(
             ReplaceAllFrom(html, Token(Head(keyValues)[1]),
                            escapeHtml(Head(keyValues)[2]), 0),
             Tail(keyValues))

(***************************************************************************)
(* The two extractors applied to a document body.                          *)
(***************************************************************************)

\* runs of a document
MaxRuns == 2

\* <w:rPr> of a run: none, bold, italic and underlined, coloured
F_None == <<>>

F_Bold == <<"<", "w", ":", "b", "/", ">">>

F_ItalicUnderline == <<"<", "w", ":", "i", "/", ">", "<", "w", ":", "u", " ", "w", ":", "v", "a", "l", "=", "\"", "s", "i", "n", "g", "l", "e", "\"", "/", ">">>

F_Color == <<"<", "w", ":", "c", "o", "l", "o", "r", " ", "w", ":", "v", "a", "l", "=", "\"", "F", "F", "0", "0", "0", "0", "\"", "/", ">">>

RunFormats == {F_None, F_Bold, F_ItalicUnderline, F_Color}

RunTexts == { <<"{", "a">>, <<"b", "}">>, <<"{", "a", "b", "}">>, <<"{", "c", "}">>, <<"{", "1", "}">>, <<>> }

WordRun(format, text) ==
    <<"<", "w", ":", "r", ">">>
        \o (IF format = <<>> THEN <<>> ELSE <<"<", "w", ":", "r", "P", "r", ">">> \o format \o <<"<", "/", "w", ":", "r", "P", "r", ">">>)
        \o <<"<", "w", ":", "t", ">">> \o text \o <<"<", "/", "w", ":", "t", ">">> \o <<"<", "/", "w", ":", "r", ">">>

WordParagraph(centered, runs) ==
    <<"<", "w", ":", "p", ">">>
        \o (IF centered THEN <<"<", "w", ":", "p", "P", "r", ">", "<", "w", ":", "j", "c", " ", "w", ":", "v", "a", "l", "=", "\"", "c", "e", "n", "t", "e", "r", "\"", "/", ">", "<", "/", "w", ":", "p", "P", "r", ">">> ELSE <<>>)
        \o runs \o <<"<", "/", "w", ":", "p", ">">>

WordRuns == {WordRun(format, text) : format \in RunFormats, text \in RunTexts}

\* the end of a paragraph and the start of the next one
ParagraphBreak == S_w_p_close \o <<"<", "w", ":", "p", ">">>

\* n more runs, each continuing the paragraph or opening a new one
RECURSIVE RunsExactly(_)
RunsExactly(n) ==
    IF n = 0 THEN { <<>> }
    ELSE { sep \o run \o rest :
             sep \in { <<>>, ParagraphBreak },
             run \in WordRuns, rest \in RunsExactly(n - 1) }

\* document bodies: paragraphs of runs, a body without paragraphs, and a
\* package without word/document.xml
Documents ==
    { WordParagraph(centered, run \o rest) :
        centered \in BOOLEAN, run \in WordRuns,
        rest \in UNION {RunsExactly(n) : n \in 0..(MaxRuns - 1)} }
    \cup { <<"<", "w", ":", "b", "o", "d", "y", ">", "<", "w", ":", "t", ">", "{", "a", "}", " ", "&", " ", "{", "c", "}", "<", "/", "w", ":", "t", ">", " ", " ", "<", "w", ":", "s", "e", "c", "t", "P", "r", "/", ">", "<", "/", "w", ":", "b", "o", "d", "y", ">">>, NullFile }

InitDoc ==
    /\ CalInit
    /\ tz = 60
    /\ parsed = <<>>
    /\ ICalIdle
    /\ docXml \in Documents
    /\ placeholders = Null
    /\ wordContent = Null
    /\ PdfIdle
    /\ AuxIdle

\* template-debugger / contract screen: scan the picked file
ExtractPlaceholders ==
    /\ placeholders = Null
    /\ placeholders' = Some(extractPlaceholdersFromTemplate(docXml))
    /\ UNCHANGED <<calVars, tz, icalVars, docXml, wordContent, pdfVars, auxVars>>

\* template editor: import the picked file
ExtractWordContent ==
    /\ wordContent = Null
    /\ wordContent' = Some(extractWordContentAsHtml(docXml))
    /\ UNCHANGED <<calVars, tz, icalVars, docXml, placeholders, pdfVars, auxVars>>

NextDoc == ExtractPlaceholders \/ ExtractWordContent

SpecDoc == InitDoc /\ [][NextDoc]_vars

(***************************************************************************)
(* generatePdfFromTemplate applied to a template and a value map.          *)
(***************************************************************************)

\* keys of the value map
MaxKeys == 2

KeyNames == << <<"a">>, <<"b">>, <<"c">> >>

Keys == {KeyNames[k] : k \in 1..Min2(MaxKeys, Len(KeyNames))}

Values ==
    { <<"X">>, <<>>, <<"{", "a", "}">>, <<"{", "b", "}">>, <<"<", "&", "\"", ">">>, <<"$", "$">>, <<"$", "'">> }

Templates ==
    { <<"{", "a", "}">>, <<"{", "b", "}", "{", "a", "}">>, <<"<", "p", ">", "{", "a", "}", " ", "a", "n", "d", " ", "{", "a", "}", "<", "/", "p", ">">>, <<"<", "p", ">", "{", "a", "}", ",", " ", "{", "b", "}", ",", " ", "{", "c", "}", "<", "/", "p", ">">>,
      <<"<", "b", ">", "{", "a", "<", "/", "b", ">", "b", "}">> }

\* Object.entries of a map: one entry per key, in insertion order
RECURSIVE EntriesOver(_)
EntriesOver(keys) ==
    IF keys = {} THEN { <<>> }
    ELSE UNION { { << <<key, value>> >> \o rest :
                     value \in Values, rest \in EntriesOver(keys \ {key}) } :
                 key \in keys }

InitPdf ==
    /\ CalInit
    /\ tz = 60
    /\ parsed = <<>>
    /\ ICalIdle
    /\ DocIdle
    /\ tplHtml \in Templates
    /\ entries \in UNION {EntriesOver(keys) : keys \in SUBSET Keys}
    /\ processedHtml = Null
    /\ AuxIdle

GeneratePdf ==
    /\ processedHtml = Null
    /\ processedHtml' = Some(ReplaceVariables(tplHtml, entries))
    /\ UNCHANGED <<calVars, tz, icalVars, docVars, tplHtml, entries, auxVars>>

NextPdf == GeneratePdf

SpecPdf == InitPdf /\ [][NextPdf]_vars

(***************************************************************************)
(* parseICalDate applied to a DTSTART line.                                *)
(***************************************************************************)

\* the fields of a date value: <<year, month, day>> of a date-only value,
\* <<year, month, day, hour, minute, second>> of a date-time value
DateFields ==
    ({1999, 2024} \X {1, 12} \X {1, 31})
        \cup ({1999, 2024} \X {1, 12} \X {1, 31} \X {0, 23} \X {0, 30} \X {0, 45})

\* n written with two digits
TwoDigits(n) == <<Digits[(n \div 10) + 1], Digits[(n % 10) + 1]>>

\* YYYYMMDD, or YYYYMMDDTHHmmssZ
DateValue(f) ==
    DecimalString(f[1]) \o TwoDigits(f[2]) \o TwoDigits(f[3])
        \o (IF Len(f) = 3 THEN <<>>
            ELSE <<"T">> \o TwoDigits(f[4]) \o TwoDigits(f[5]) \o TwoDigits(f[6])
                     \o <<"Z">>)

\* DTSTART;VALUE=DATE:YYYYMMDD, or DTSTART:YYYYMMDDTHHmmssZ
DateLine(f) ==
    S_DTSTART \o (IF Len(f) = 3 THEN S_VALUE_DATE ELSE <<>>) \o <<":">> \o DateValue(f)

InitDate ==
    /\ CalInit
    /\ tz \in TzOffsets
    /\ parsed = <<>>
    /\ ICalIdle
    /\ DocIdle
    /\ PdfIdle
    /\ dateLine \in {DateLine(f) : f \in DateFields}
    /\ dateResult = Null
    /\ icalRuns = <<>>
    /\ ScreenIdle
    /\ UploadIdle
    /\ ExtraIdle

ParseDate ==
    /\ dateResult = Null
    /\ dateResult' = Some(parseICalDate(dateLine, tz))
    /\ UNCHANGED <<calVars, tz, icalVars, docVars, pdfVars, dateLine, icalRuns,
                   screenVars, uploadVars, extraVars>>

NextDate == ParseDate

SpecDate == InitDate /\ [][NextDate]_vars

(***************************************************************************)
(* parseICalString called again and again, while the store changes.        *)
(***************************************************************************)

\* calls of parseICalString
MaxParses == 3

InitReparse ==
    /\ CalInit
    /\ tz \in TzOffsets
    /\ parsed = <<>>
    /\ ICalIdle
    /\ DocIdle
    /\ PdfIdle
    /\ DateIdle
    /\ icalRuns = <<>>
    /\ ScreenIdle
    /\ UploadIdle
    /\ ExtraIdle

ParseText(f) ==
    /\ Len(icalRuns) < MaxParses
    /\ icalRuns' = Append(icalRuns,
                      [text |-> Feeds[f], events |-> parseICalString(Feeds[f], tz)])
    /\ UNCHANGED <<calVars, tz, icalVars, docVars, pdfVars, dateVars, screenVars, uploadVars,
                   extraVars>>

NextReparse ==
    \/ \E f \in 1..Len(Feeds) : ParseText(f)
    \/ \E booking \in ManualInputs : AddManualBooking(booking)
    \/ Tick

SpecReparse == InitReparse /\ [][NextReparse]_vars

(***************************************************************************)
(* The screens and their asynchronous handlers: the calendar's             *)
(* syncFromUrl, the template fill screen's loadInitialData and doGenerate, *)
(* and the scan handlers of the template editor, the template debugger and *)
(* the contract editor.  One screen is mounted in a behaviour.             *)
(***************************************************************************)

Screens ==
    {"calendar", "template-fill", "template-editor", "template-debugger", "contract-editor"}

ScanScreens == {"template-editor", "template-debugger", "contract-editor"}

\* the files the user picks: a package without word/document.xml, a
\* document with a placeholder, a document without any
PickedDocuments ==
    { NullFile,
      WordParagraph(FALSE, WordRun(F_None, <<"{", "c", "}">>)),
      WordParagraph(FALSE, WordRun(F_None, <<>>)) }

InitScreens ==
    /\ CalInit
    /\ tz = 60
    /\ parsed = [f \in 1..Len(Feeds) |-> parseICalString(Feeds[f], tz)]
    /\ ICalIdle
    /\ PdfIdle
    /\ DateIdle
    /\ icalRuns = <<>>
    /\ UploadIdle
    /\ ExtraIdle
    /\ screen \in Screens
    /\ docXml \in (IF screen \in ScanScreens THEN PickedDocuments ELSE { <<>> })
    /\ placeholders = Null
    /\ wordContent = Null
    /\ pc = (IF screen = "template-fill" THEN "mount" ELSE "idle")
    /\ paramsId \in (IF screen = "template-fill" THEN BOOLEAN ELSE {FALSE})
    /\ template = Null
    /\ isLoading = (screen = "template-fill")
    /\ isGenerating = FALSE
    /\ isScanning = FALSE
    /\ alert = Null
    /\ rejection = Null

\* what no handler of the template screens touches
outsideScreens == <<calVars, tz, icalVars, pdfVars, dateVars, icalRuns, uploadVars, extraVars>>

\* Alert.alert(title, message + error)
Alert(title, message, error) == Some([title |-> title, message |-> message, error |-> error])

\* the effect of the template fill screen: loadInitialData up to its first await
LoadInitialData ==
    /\ screen = "template-fill"
    /\ pc = "mount"
    /\ isLoading' = TRUE
    /\ pc' = "listTemplates"
    /\ UNCHANGED <<outsideScreens, docVars, screen, paramsId, template, isGenerating,
                   isScanning, alert, rejection>>

\* await listTemplates(): ensureTemplatesDir is outside its try block
ListTemplatesSettled(ok) ==
    /\ pc = "listTemplates"
    /\ IF ~ok
       THEN /\ pc' = "rejected"
            /\ rejection' = Some("ensureTemplatesDir")
            /\ UNCHANGED isLoading
       ELSE IF paramsId
            THEN /\ pc' = "loadTemplate"
                 /\ UNCHANGED <<isLoading, rejection>>
            ELSE /\ pc' = "idle"
                 /\ isLoading' = FALSE
                 /\ UNCHANGED rejection
    /\ UNCHANGED <<outsideScreens, docVars, screen, paramsId, template, isGenerating,
                   isScanning, alert>>

\* await loadTemplate(params.id): a saved template, null, or an error of the
\* file system or of JSON.parse
LoadTemplateSettled(outcome) ==
    /\ pc = "loadTemplate"
    /\ IF outcome = "throws"
       THEN /\ pc' = "rejected"
            /\ rejection' = Some("loadTemplate")
            /\ UNCHANGED <<isLoading, template>>
       ELSE /\ pc' = "idle"
            /\ template' = (IF outcome = "template" THEN Some("loaded") ELSE template)
            /\ isLoading' = FALSE
            /\ UNCHANGED rejection
    /\ UNCHANGED <<outsideScreens, docVars, screen, paramsId, isGenerating, isScanning, alert>>

\* handleSelectTemplate, from the selector the loaded screen shows
SelectTemplate ==
    /\ screen = "template-fill"
    /\ pc = "idle"
    /\ ~isLoading
    /\ template = Null
    /\ template' = Some("selected")
    /\ UNCHANGED <<outsideScreens, docVars, screen, pc, paramsId, isLoading, isGenerating,
                   isScanning, alert, rejection>>

\* doGenerate up to its first await
DoGenerate ==
    /\ screen = "template-fill"
    /\ pc = "idle"
    /\ ~isLoading
    /\ template # Null
    /\ isGenerating' = TRUE
    /\ pc' = "generatePdf"
    /\ UNCHANGED <<outsideScreens, docVars, screen, paramsId, template, isLoading,
                   isScanning, alert, rejection>>

\* await generatePdfFromTemplate(...)
GeneratePdfSettled(ok) ==
    /\ pc = "generatePdf"
    /\ IF ok
       THEN /\ pc' = "uploadAndRecord"
            /\ UNCHANGED <<isGenerating, alert>>
       ELSE /\ pc' = "idle"
            /\ alert' = Alert("Error", "No se pudo generar el PDF: ", "printToFileAsync")
            /\ isGenerating' = FALSE
    /\ UNCHANGED <<outsideScreens, docVars, screen, paramsId, template, isLoading,
                   isScanning, rejection>>

\* await uploadAndRecordDocument(...), which catches every error
UploadAndRecordSettled(success) ==
    /\ pc = "uploadAndRecord"
    /\ pc' = "idle"
    /\ alert' = Alert("PDF Generado", "El documento se ha creado y guardado en el historial.", "")
    /\ isGenerating' = FALSE
    /\ UNCHANGED <<outsideScreens, docVars, screen, paramsId, template, isLoading,
                   isScanning, rejection>>

\* handleScanWord, handleScanTemplate up to DocumentPicker.getDocumentAsync
HandleScan ==
    /\ screen \in ScanScreens
    /\ pc = "idle"
    /\ pc' = "picker"
    /\ UNCHANGED <<outsideScreens, docVars, screen, paramsId, template, isLoading,
                   isGenerating, isScanning, alert, rejection>>

ScanErrorMessage ==
    IF screen = "template-editor" THEN "No se pudo escanear el documento: "
    ELSE "No se pudo escanear la plantilla: "

\* the catch block of a scan handler
ScanCaught(error) ==
    /\ pc' = "idle"
    /\ isLoading' = (IF screen = "template-editor" THEN FALSE ELSE isLoading)
    /\ isScanning' = (IF screen = "template-debugger" THEN FALSE ELSE isScanning)
    /\ alert' = Alert("Error", ScanErrorMessage, error)
    /\ UNCHANGED <<docVars, rejection>>

\* the picker settles: cancelled, a file, or an error
PickerSettled(outcome) ==
    /\ pc = "picker"
    /\ CASE outcome = "canceled" ->
              /\ pc' = "idle"
              /\ UNCHANGED <<docVars, isLoading, isScanning, alert, rejection>>
         [] outcome = "picked" ->
              /\ pc' = "extract"
              /\ isLoading' = (IF screen = "template-editor" THEN TRUE ELSE isLoading)
              /\ isScanning' = (IF screen = "template-debugger" THEN TRUE ELSE isScanning)
              /\ UNCHANGED <<docVars, alert, rejection>>
         [] OTHER -> ScanCaught("getDocumentAsync")
    /\ UNCHANGED <<outsideScreens, screen, paramsId, template, isGenerating>>

\* the rest of the try block of a scan handler, for what the extractor returned
ScanReturned(value) ==
    /\ pc' = "idle"
    /\ UNCHANGED <<docXml, rejection>>
    /\ CASE screen = "template-editor" ->
              /\ wordContent' = Some(value)
              /\ isLoading' = FALSE
              /\ alert' = Alert("Documento Escaneado", "Variables detectadas: ", "")
              /\ UNCHANGED <<placeholders, isScanning>>
         [] screen = "template-debugger" ->
              /\ placeholders' = (IF Len(value) = 0 THEN placeholders ELSE Some(value))
              /\ isScanning' = FALSE
              /\ alert' = (IF Len(value) = 0
                           THEN Alert("Sin variables", "No se encontraron variables {nombre} en el documento.", "")
                           ELSE Alert("Variables Detectadas", "Ahora rellena los valores.", ""))
              /\ UNCHANGED <<wordContent, isLoading>>
         [] OTHER ->
              /\ placeholders' = Some(value)
              /\ alert' = (IF Len(value) > 0
                           THEN Alert("Plantilla Escaneada", "Ahora puedes:", "")
                           ELSE alert)
              /\ UNCHANGED <<wordContent, isLoading, isScanning>>

\* a scan handler after its extractor settled with r
ScanSettledWith(r) ==
    IF r.threw THEN ScanCaught(r.message) ELSE ScanReturned(r.value)

\* await extractWordContentAsHtml(uri) in the template editor, await
\* extractPlaceholdersFromTemplate(uri) in the other two; both read the file
\* first, which can fail
ExtractSettled(readable) ==
    /\ pc = "extract"
    /\ ScanSettledWith(IF ~readable THEN Threw("readAsStringAsync")
                       ELSE IF screen = "template-editor"
                            THEN extractWordContentAsHtml(docXml)
                            ELSE extractPlaceholdersFromTemplate(docXml))
    /\ UNCHANGED <<outsideScreens, screen, paramsId, template, isGenerating>>

\* the calendar screen: the calls of syncFromUrl
CalendarSettles ==
    /\ screen = "calendar"
    /\ \/ \E s \in SyncIds, ok \in BOOLEAN : FetchResolved(s, ok)
       \/ \E s \in SyncIds : AwaitRejected(s)
       \/ \E s \in SyncIds, f \in 1..Len(Feeds) : TextResolved(s, f)

CalendarSyncs ==
    /\ screen = "calendar"
    /\ \E s \in SyncIds, source \in Sources : SyncStart(s, source)

\* the steps the runtime takes: an effect runs, an awaited promise settles
AwaitSettles ==
    \/ LoadInitialData
    \/ \E ok \in BOOLEAN : ListTemplatesSettled(ok)
    \/ \E outcome \in {"template", "null", "throws"} : LoadTemplateSettled(outcome)
    \/ \E ok \in BOOLEAN : GeneratePdfSettled(ok)
    \/ \E success \in BOOLEAN : UploadAndRecordSettled(success)
    \/ \E outcome \in {"canceled", "picked", "rejects"} : PickerSettled(outcome)
    \/ \E readable \in BOOLEAN : ExtractSettled(readable)
    \/ CalendarSettles

\* the steps the user takes
UserActs ==
    \/ SelectTemplate
    \/ DoGenerate
    \/ HandleScan
    \/ CalendarSyncs

NextScreens == AwaitSettles \/ UserActs

\* an effect that is due runs and a pending promise settles: the runtime
\* never leaves one waiting for ever; the user need not do anything
SpecScreens == InitScreens /\ [][NextScreens]_vars /\ WF_vars(AwaitSettles)

(***************************************************************************)
(* uploadAndRecordDocument and recordGeneratedDocument, await by await.    *)
(***************************************************************************)

\* the doc argument: title, document_type, template_id (texts are opaque here)
UploadDocs ==
    { [title |-> <<"Contrato_1.pdf">>, document_type |-> type, template_id |-> id] :
        type \in {"contract", "invoice", "checkin", "other"},
        id \in {Undefined, <<"0b9c2a5e-uuid">>} }

UserId == <<"user-1">>

\* urlData.publicUrl of the uploaded file
PublicUrl == <<"https://storage/documents/user-1/0_Contrato_1.pdf">>

\* recordGeneratedDocument(doc) and recordGeneratedDocument({...doc, file_url})
RecordArgument(doc, fileUrl) ==
    [title |-> doc.title, document_type |-> doc.document_type,
     template_id |-> doc.template_id, file_url |-> fileUrl]

\* .insert({...doc, user_id: user.id})
InsertedRow(doc) ==
    [title |-> doc.title, document_type |-> doc.document_type,
     template_id |-> doc.template_id, file_url |-> doc.file_url, user_id |-> UserId]

Success(data) == [success |-> TRUE, data |-> data, error |-> Undefined]

Failure(message) == [success |-> FALSE, data |-> Undefined, error |-> <<message>>]

InitUpload ==
    /\ CalInit
    /\ tz = 60
    /\ parsed = <<>>
    /\ ICalIdle
    /\ DocIdle
    /\ PdfIdle
    /\ DateIdle
    /\ icalRuns = <<>>
    /\ ScreenIdle
    /\ UploadIdle
    /\ ExtraIdle

outsideUpload ==
    <<calVars, tz, icalVars, docVars, pdfVars, dateVars, icalRuns, screenVars, extraVars>>

\* uploadAndRecordDocument(localFilePath, doc) up to its first await.
\* pc: the await the call is at; uploadError: the error field of the storage
\* response; caught: err of the catch block; recording: the argument of
\* recordGeneratedDocument; result: what the call resolved with
UploadAndRecord(doc) ==
    /\ upload = Null
    /\ upload' = [pc |-> "getUser", doc |-> doc, uploadError |-> Null, caught |-> Null,
                  recording |-> Null, result |-> Null]
    /\ UNCHANGED <<outsideUpload, generatedDocuments>>

\* return recordGeneratedDocument(argument), up to its first await
Records(argument) ==
    [upload EXCEPT !.pc = "record.getUser", !.recording = Some(argument)]

\* the catch block: return recordGeneratedDocument(doc)
UploadCaught(err) ==
    [Records(RecordArgument(upload.doc, Undefined)) EXCEPT !.caught = Some(err)]

\* await supabase.auth.getUser()
GetUserSettled(outcome) ==
    /\ upload # Null
    /\ upload.pc = "getUser"
    /\ upload' = CASE outcome = "user" -> [upload EXCEPT !.pc = "read"]
                   [] outcome = "null" ->
                        [upload EXCEPT !.pc = "done",
                                       !.result = Some(Failure("Usuario no autenticado"))]
                   [] OTHER -> UploadCaught("getUser")
    /\ UNCHANGED <<outsideUpload, generatedDocuments>>

\* await FileSystem.readAsStringAsync(localFilePath, ...)
ReadSettled(ok) ==
    /\ upload # Null
    /\ upload.pc = "read"
    /\ upload' = IF ok THEN [upload EXCEPT !.pc = "upload"]
                 ELSE UploadCaught("readAsStringAsync")
    /\ UNCHANGED <<outsideUpload, generatedDocuments>>

\* a mutant of StorageSettled: a failed upload fails the call
Mutant_StorageSettled(outcome) ==
    /\ upload # Null
    /\ upload.pc = "upload"
    /\ upload' = CASE outcome = "stored" ->
                        Records(RecordArgument(upload.doc, PublicUrl))
                   [] outcome = "error" ->
                        [upload EXCEPT !.pc = "done", !.uploadError = Some("upload failed"),
                                       !.result = Some(Failure("upload failed"))]
                   [] OTHER ->
                        [upload EXCEPT !.pc = "done", !.caught = Some("upload"),
                                       !.result = Some(Failure("upload"))]
    /\ UNCHANGED <<outsideUpload, generatedDocuments>>

\* await supabase.storage.from('documents').upload(...)
StorageSettled(outcome) ==
    /\ upload # Null
    /\ upload.pc = "upload"
    /\ upload' = CASE outcome = "stored" ->
                        Records(RecordArgument(upload.doc, PublicUrl))
                   [] outcome = "error" ->
                        [Records(RecordArgument(upload.doc, Undefined))
                            EXCEPT !.uploadError = Some("upload failed")]
                   [] OTHER -> UploadCaught("upload")
    /\ UNCHANGED <<outsideUpload, generatedDocuments>>

\* recordGeneratedDocument: await supabase.auth.getUser()
RecordGetUserSettled(outcome) ==
    /\ upload # Null
    /\ upload.pc = "record.getUser"
    /\ upload' = CASE outcome = "user" -> [upload EXCEPT !.pc = "record.insert"]
                   [] outcome = "null" ->
                        [upload EXCEPT !.pc = "done",
                                       !.result = Some(Failure("Usuario no autenticado"))]
                   [] OTHER ->
                        [upload EXCEPT !.pc = "done", !.result = Some(Failure("getUser"))]
    /\ UNCHANGED <<outsideUpload, generatedDocuments>>

\* what recordGeneratedDocument returns for what the insertion settled with
InsertionResult(outcome, row) ==
    CASE outcome = "row" -> Success(row)
      [] outcome = "error" -> Failure("insert failed")
      [] OTHER -> Failure("insert")

\* recordGeneratedDocument: await supabase.from('generated_documents').insert(...)
InsertSettled(outcome) ==
    /\ upload # Null
    /\ upload.pc = "record.insert"
    /\ upload' = [upload EXCEPT
           !.pc = "done",
           !.result = Some(InsertionResult(outcome, InsertedRow(upload.recording[1])))]
    /\ generatedDocuments' =
           (IF outcome = "row"
            THEN Append(generatedDocuments, InsertedRow(upload.recording[1]))
            ELSE generatedDocuments)
    /\ UNCHANGED outsideUpload

NextUpload ==
    \/ \E doc \in UploadDocs : UploadAndRecord(doc)
    \/ \E outcome \in {"user", "null", "throws"} : GetUserSettled(outcome)
    \/ \E ok \in BOOLEAN : ReadSettled(ok)
    \/ \E outcome \in {"stored", "error", "throws"} : StorageSettled(outcome)
    \/ \E outcome \in {"user", "null", "throws"} : RecordGetUserSettled(outcome)
    \/ \E outcome \in {"row", "error", "throws"} : InsertSettled(outcome)

SpecUpload == InitUpload /\ [][NextUpload]_vars

(***************************************************************************)
(* The stored bookings edited with updateBooking between syncs.            *)
(***************************************************************************)

\* the updates argument of updateBooking: a Partial<Booking>
BookingUpdates ==
    { [notes |-> <<"l", "a", "t", "e">>],
      [status |-> "cancelled", totalPrice |-> SomeNumber(250)] }

\* { ...b, ...updates }
Merged(b, updates) ==
    [field \in DOMAIN b |-> IF field \in DOMAIN updates THEN updates[field] ELSE b[field]]

\* updateBooking(id, updates), for the id of a stored booking
UpdateBooking(id, updates) ==
    /\ id \in StoredIds
    /\ bookings' = [k \in 1..Len(bookings) |->
                       IF bookings[k].id = id THEN Merged(bookings[k], updates)
                       ELSE bookings[k]]
    /\ edited' = Some([id |-> id, updates |-> updates])
    /\ conflict' = Null
    /\ UNCHANGED <<lastSyncDate, syncError, isSyncing, syncs, now, tz, parsed, icalVars,
                   docVars, pdfVars, dateVars, icalRuns, screenVars, uploadVars, laterVars>>

NextEdit ==
    \/ \E s \in SyncIds, source \in Sources : SyncStart(s, source)
    \/ \E s \in SyncIds, ok \in BOOLEAN : FetchResolved(s, ok)
    \/ \E s \in SyncIds, f \in 1..Len(Feeds) : TextResolved(s, f)
    \/ \E booking \in ManualInputs : AddManualBooking(booking)
    \/ \E id \in StoredIds, updates \in BookingUpdates : UpdateBooking(id, updates)

SpecEdit == Init /\ [][NextEdit]_vars


(***************************************************************************)
(* Properties of the booking merge and of the conflict check.              *)
(***************************************************************************)

\* call s of syncFromUrl returns success in this step
SyncSucceeds(s) ==
    syncs[s].pc = "text" /\ syncs'[s].pc = "done" /\ syncs'[s].result.success

\* C1: after a successful syncFromUrl the store's list is the manual bookings
\* that were in the store when syncFromUrl was called, each unchanged and in
\* their order, followed by the bookings converted from the feed that was
\* read; every non-manual booking of the list comes from that feed, whatever
\* was stored before and under whatever source tag.
C1_SyncReplacesExternal ==
    [][\A s \in SyncIds : SyncSucceeds(s) =>
          LET before == syncs[s].bookings
              manualIdx == {i \in 1..Len(before) : before[i].source = "manual"}
              m == Cardinality(manualIdx)
              events == parsed[syncs'[s].feed]
          IN  /\ Len(bookings') = m + Len(events)
              /\ \A k \in 1..m : bookings'[k].source = "manual"
              /\ \A i, j \in manualIdx : i < j =>
                    \E k, l \in 1..m : k < l /\ bookings'[k] = before[i]
                                           /\ bookings'[l] = before[j]
              /\ \A i \in manualIdx : \E k \in 1..m : bookings'[k] = before[i]
              /\ \A k \in 1..Len(events) :
                    /\ bookings'[m + k].id = events[k].uid
                    /\ bookings'[m + k].source = syncs[s].source
                    /\ bookings'[m + k].startDate = ToISOString(events[k].dtstart)
                    /\ bookings'[m + k].endDate = ToISOString(events[k].dtend)
              /\ \A k \in 1..Len(bookings') : bookings'[k].source # "manual" =>
                    \E e \in 1..Len(events) : bookings'[k].id = events[e].uid
      ]_vars

\* C1 witness: a successful sync has replaced a stored external booking of
\* the other source tag by the feed's booking and has kept a manual booking.
C1_Witness ==
    /\ Len(bookings) = 2
    /\ bookings[1].source = "manual"
    /\ bookings[2].source = "airbnb"
    /\ bookings[2].id = Uid2
    /\ \E s \in SyncIds : syncs[s].pc = "done" /\ syncs[s].result.success
                           /\ syncs[s].source = "airbnb" /\ syncs[s].feed = 2
    /\ \E s \in SyncIds : syncs[s].pc = "done" /\ syncs[s].result.success
                           /\ syncs[s].source = "booking" /\ syncs[s].feed = 1

\* the time value of a date string, for the statements below
TimeOf(str) == NewDate(str).t

IsDate(str) == NewDate(str).valid

\* booking b overlaps the half-open range of the call c of checkConflict
RangeOverlaps(c, b) ==
    /\ IsDate(c.startDate) /\ IsDate(c.endDate)
    /\ TimeOf(c.startDate) < TimeOf(b.endDate)
    /\ TimeOf(c.endDate) > TimeOf(b.startDate)

\* the range of the call c only touches booking b at a boundary
RangeTouches(c, b) ==
    \/ c.endDate # <<>> /\ TimeOf(c.endDate) = TimeOf(b.startDate)
    \/ c.startDate # <<>> /\ TimeOf(c.startDate) = TimeOf(b.endDate)

\* C2: checkConflict returns the first booking in store order, skipping the
\* one whose id is excludeId, with start < booking.end and end > booking.start;
\* it returns null iff there is none; a range that touches a booking only at
\* a boundary does not conflict with it.
C2_CheckConflictFirstOverlap ==
    conflict # Null =>
        LET c == conflict[1]
            hits == {i \in 1..Len(bookings) :
                        /\ ~(c.excludeId # Undefined /\ bookings[i].id = c.excludeId)
                        /\ RangeOverlaps(c, bookings[i])}
        IN  /\ (hits = {}) <=> (c.result = Null)
            /\ hits # {} => c.result = Some(bookings[CHOOSE i \in hits : \A j \in hits : i <= j])
            /\ \A i \in 1..Len(bookings) :
                  RangeTouches(c, bookings[i]) /\ TimeOf(c.startDate) < TimeOf(c.endDate)
                      => i \notin hits

\* C2 witness: checkConflict returned null for a range that ends exactly
\* where a stored booking starts, and in another call skipped the excluded
\* first booking and returned a later one.
C2_Witness ==
    /\ conflict # Null
    /\ Len(bookings) = 2
    /\ conflict[1].result = Null
    /\ conflict[1].excludeId = Undefined
    /\ \E i \in 1..2 : conflict[1].endDate = bookings[i].startDate

\* C3 (as claimed): a manual booking that is in the store when a sync writes
\* its merged list is still in the store after the write.
C3_SyncKeepsManualAddedMeanwhile ==
    [][\A s \in SyncIds : SyncSucceeds(s) =>
          \A i \in 1..Len(bookings) : bookings[i].source = "manual" =>
              \E k \in 1..Len(bookings') : bookings'[k] = bookings[i]
      ]_vars

\* the scenario of C4: the store holds the manual booking Jan 10-15 followed
\* by the external booking u1 of Jan 12-14, and checkConflict has just been
\* called for Jan 13-16
C4_Scenario ==
    /\ Len(bookings) = 2
    /\ bookings[1].source = "manual"
    /\ bookings[1].startDate = <<2024, 1, 10, 0, 0>>
    /\ bookings[1].endDate = <<2024, 1, 15, 0, 0>>
    /\ bookings[2].source # "manual"
    /\ bookings[2].id = Uid1
    /\ \E s \in SyncIds : syncs[s].pc = "done" /\ syncs[s].result.success
    /\ conflict # Null
    /\ conflict[1].startDate = <<2024, 1, 13>>
    /\ conflict[1].endDate = <<2024, 1, 16>>
    /\ conflict[1].excludeId = Undefined

\* C4 (as claimed): in the scenario checkConflict returns the external
\* booking of Jan 12-14.
C4_ReturnsExternal ==
    C4_Scenario => conflict[1].result = Some(bookings[2])

\* C4 (amended): in the scenario checkConflict reports a conflict, and the
\* booking it returns is the manual booking Jan 10-15, which comes first in
\* the store; the external booking Jan 12-14 overlaps the range as well.
C4_ReturnsFirstInStoreOrder ==
    C4_Scenario =>
        /\ conflict[1].result = Some(bookings[1])
        /\ RangeOverlaps(conflict[1], bookings[2])

\* C4 witness: the scenario is reached.
C4_Witness == C4_Scenario

(***************************************************************************)
(* Properties of the parser, stated on the positions of the text.          *)
(***************************************************************************)

\* the 0-based positions of the text where p occurs
Occurrences(text, p) == {i \in 0..Len(text) : MatchAt(text, p, i)}

\* the positions where a VEVENT block begins
BlockBegins(text) == Occurrences(text, S_BEGIN_VEVENT)

\* where the next block begins after position i, or the end of the text
NextBegin(text, i) ==
    LET later == {j \in BlockBegins(text) : j > i}
    IN  IF later = {} THEN Len(text) ELSE CHOOSE j \in later : \A k \in later : j <= k

\* the positions of END:VEVENT inside the block that begins at i
BlockEndsAt(text, i) ==
    {j \in Occurrences(text, S_END_VEVENT) :
        j >= i + Len(S_BEGIN_VEVENT) /\ j + Len(S_END_VEVENT) <= NextBegin(text, i)}

\* the block that begins at i is closed by an END:VEVENT
Terminated(text, i) == BlockEndsAt(text, i) # {}

\* the text between BEGIN:VEVENT at i and the first END:VEVENT after it
BlockContent(text, i) ==
    LET e == CHOOSE j \in BlockEndsAt(text, i) : \A k \in BlockEndsAt(text, i) : j <= k
    IN  SubSeq(text, i + Len(S_BEGIN_VEVENT) + 1, e)

\* the 0-based positions where a line of the content starts with prefix
LinesWith(content, prefix) ==
    {q \in Occurrences(content, prefix) : q = 0 \/ content[q] = "\n"}

\* the value of the last line that starts with prefix, white space trimmed
LastValue(content, prefix) ==
    LET q == CHOOSE x \in LinesWith(content, prefix) :
                 \A y \in LinesWith(content, prefix) : y <= x
        breaks == {e \in q + 1..Len(content) : content[e] = "\n"}
        stop == IF breaks = {} THEN Len(content) + 1
                ELSE CHOOSE e \in breaks : \A f \in breaks : e <= f
    IN  Trim(SubSeq(content, q + Len(prefix) + 1, stop - 1))

\* the block that begins at i has a UID, a DTSTART and a DTEND
Complete(text, i) ==
    /\ Terminated(text, i)
    /\ LET content == BlockContent(text, i)
       IN  /\ LinesWith(content, S_UID) # {}
           /\ LastValue(content, S_UID) # <<>>
           /\ LinesWith(content, S_DTSTART) # {}
           /\ LinesWith(content, S_DTEND) # {}

CompleteBlocks(text) == {i \in BlockBegins(text) : Complete(text, i)}

\* the k-th smallest element of a set of numbers
Kth(S, k) == CHOOSE i \in S : Cardinality({j \in S : j < i}) = k - 1

\* C9: a block without a UID, a DTSTART or a DTEND line gives no event and
\* the other blocks are still returned; a text without a complete block,
\* the empty text included, gives the empty sequence.
C9_IncompleteBlocksDropped ==
    icalEvents # Null =>
        LET events == icalEvents[1]
            complete == CompleteBlocks(icalText)
        IN  /\ Len(events) = Cardinality(complete)
            /\ \A k \in 1..Len(events) : \E i \in complete :
                  events[k].uid = LastValue(BlockContent(icalText, i), S_UID)
            /\ complete = {} => events = <<>>

\* C9 witness: a text whose first block has no DTEND line and whose second
\* block is complete has been parsed, and one event was returned.
C9_Witness ==
    /\ icalEvents # Null
    /\ Cardinality(BlockBegins(icalText)) = 2
    /\ LET first == Kth(BlockBegins(icalText), 1)
       IN  /\ Terminated(icalText, first)
           /\ LinesWith(BlockContent(icalText, first), S_UID) # {}
           /\ LinesWith(BlockContent(icalText, first), S_DTSTART) # {}
           /\ LinesWith(BlockContent(icalText, first), S_DTEND) = {}
    /\ Complete(icalText, Kth(BlockBegins(icalText), 2))
    /\ Len(icalEvents[1]) = 1

\* C10: the events are those of the blocks that have UID, DTSTART and DTEND,
\* one for each, in the order of the blocks in the text, with the values of
\* the block's own lines; nothing else in the text gives an event.
C10_EventsInSourceOrder ==
    icalEvents # Null =>
        LET events == icalEvents[1]
            complete == CompleteBlocks(icalText)
        IN  /\ Len(events) = Cardinality(complete)
            /\ \A k \in 1..Len(events) :
                  LET content == BlockContent(icalText, Kth(complete, k))
                  IN  /\ events[k].uid = LastValue(content, S_UID)
                      /\ events[k].dtstart.def /\ events[k].dtend.def
                      /\ events[k].dtstart.valid
                            <=> IsDigit(Head(LastValue(content, S_DTSTART \o <<":">>)))

\* C10 witness: two complete blocks have been parsed into two events, the
\* first block's event first.
C10_Witness ==
    /\ icalEvents # Null
    /\ Cardinality(CompleteBlocks(icalText)) = 2
    /\ Len(icalEvents[1]) = 2
    /\ icalEvents[1][1].uid = <<"u", "1">>
    /\ icalEvents[1][2].uid = <<"u", "2">>

(***************************************************************************)
(* Properties of the variable substitution.                                *)
(***************************************************************************)

\* the entries of the same map in any insertion order
Reorderings(keyValues) ==
    LET n == Len(keyValues)
    IN  { [i \in 1..n |-> keyValues[p[i]]] :
            p \in {q \in [1..n -> 1..n] : \A i, j \in 1..n : q[i] = q[j] => i = j} }

DeclaredKeys == {entries[k][1] : k \in 1..Len(entries)}

\* C5: the substituted HTML is the same for every ordering of the keys of
\* the value map, and a value that contains the text {b}, b another
\* declared key, is in the output as literal (escaped) text wherever the
\* template had that value's own placeholder.
C5_SubstitutionOrderIndependent ==
    processedHtml # Null =>
        /\ \A reordered \in Reorderings(entries) :
               ReplaceVariables(tplHtml, reordered) = processedHtml[1]
        /\ \A k \in 1..Len(entries) :
               (/\ Includes(tplHtml, Token(entries[k][1]))
                /\ ~Includes(entries[k][2], <<"$">>)
                /\ \E b \in DeclaredKeys \ {entries[k][1]} :
                       Includes(entries[k][2], Token(b)))
               => Includes(processedHtml[1], escapeHtml(entries[k][2]))

(***************************************************************************)
(* Properties of the placeholder extractors, stated on the positions of    *)
(* the text.                                                               *)
(***************************************************************************)

IsIdentifier(s) ==
    /\ s # <<>>
    /\ IsIdentStart(s[1])
    /\ \A k \in 1..Len(s) : IsIdentChar(s[k])

\* the identifiers that occur in the text between braces
BracedIdentifiers(text) ==
    { SubSeq(text, oc[1] + 1, oc[2] - 1) :
        oc \in { pair \in {i \in 1..Len(text) : text[i] = "{"}
                            \X {i \in 1..Len(text) : text[i] = "}"} :
                   /\ pair[1] < pair[2]
                   /\ IsIdentifier(SubSeq(text, pair[1] + 1, pair[2] - 1)) } }

FirstOccurrence(text, identifier) ==
    CHOOSE i \in Occurrences(text, Token(identifier)) :
        \A j \in Occurrences(text, Token(identifier)) : i <= j

DistinctInFirstOccurrenceOrder(text, list) ==
    /\ \A i, j \in 1..Len(list) : i # j => list[i] # list[j]
    /\ {list[i] : i \in 1..Len(list)} = BracedIdentifiers(text)
    /\ \A i, j \in 1..Len(list) :
           i < j => FirstOccurrence(text, list[i]) < FirstOccurrence(text, list[j])

PlaceholdersReturned == placeholders # Null /\ ~placeholders[1].threw

WordContentReturned == wordContent # Null /\ ~wordContent[1].threw

Id_ab == <<"a", "b">>

T_Open_a == <<"{", "a">>

T_b_Close == <<"b", "}">>

\* a body of two runs that hold the two halves of {ab}
SplitBody(centered, f1, broken, f2) ==
    WordParagraph(centered,
        WordRun(f1, T_Open_a)
            \o (IF broken THEN ParagraphBreak ELSE <<>>)
            \o WordRun(f2, T_b_Close))

\* the formats parseRuns renders as an element around the run's text
WrappedFormats == {F_Bold, F_ItalicUnderline}

\* C6 as stated: a placeholder split across two separately formatted runs
\* of one paragraph is returned by neither extractor.
C6_SplitNotReturned ==
    \A centered \in BOOLEAN, f1, f2 \in RunFormats :
        (f1 # f2 /\ docXml = SplitBody(centered, f1, FALSE, f2)) =>
            /\ PlaceholdersReturned => placeholders[1].value = <<>>
            /\ WordContentReturned => wordContent[1].value.variables = <<>>

\* C6 as the code has it: extractPlaceholdersFromTemplate strips the tags
\* of the whole body before it scans, so it returns a placeholder split
\* across two separately formatted runs of one paragraph;
\* extractWordContentAsHtml returns it unless one of the two runs is bold,
\* italic or underlined.
C6_SplitReturnedUnlessWrapped ==
    \A centered \in BOOLEAN, f1, f2 \in RunFormats :
        (f1 # f2 /\ docXml = SplitBody(centered, f1, FALSE, f2)) =>
            /\ PlaceholdersReturned => placeholders[1].value = <<Id_ab>>
            /\ WordContentReturned =>
                   wordContent[1].value.variables =
                       IF {f1, f2} \cap WrappedFormats = {} THEN <<Id_ab>> ELSE <<>>

C6_Witness ==
    /\ \E centered \in BOOLEAN, f1, f2 \in RunFormats :
           f1 # f2 /\ docXml = SplitBody(centered, f1, FALSE, f2)
    /\ PlaceholdersReturned /\ placeholders[1].value = <<Id_ab>>
    /\ WordContentReturned /\ wordContent[1].value.variables = <<>>

\* C7: there are bodies on which the two extractors return different
\* lists. For the bodies whose two runs hold the halves of {ab}, they
\* differ exactly when the halves are in different paragraphs or one of
\* the runs is bold, italic or underlined.
C7_ExtractorsDiffer ==
    \A centered, broken \in BOOLEAN, f1, f2 \in RunFormats :
        (/\ docXml = SplitBody(centered, f1, broken, f2)
         /\ PlaceholdersReturned /\ WordContentReturned) =>
            (placeholders[1].value # wordContent[1].value.variables
                <=> (broken \/ {f1, f2} \cap WrappedFormats # {}))

C7_Witness ==
    /\ PlaceholdersReturned /\ WordContentReturned
    /\ placeholders[1].value # wordContent[1].value.variables

\* C8: each extractor returns every identifier that occurs between braces
\* in its text exactly once, in the order of the first occurrences; a
\* text that holds {ab} twice and nothing else between braces gives <<ab>>.
C8_DistinctFirstOccurrence ==
    /\ PlaceholdersReturned =>
           DistinctInFirstOccurrenceOrder(plainText(docXml), placeholders[1].value)
    /\ WordContentReturned =>
           DistinctInFirstOccurrenceOrder(wordContent[1].value.html,
                                          wordContent[1].value.variables)
    /\ (/\ PlaceholdersReturned
        /\ Cardinality(Occurrences(plainText(docXml), Token(Id_ab))) = 2
        /\ BracedIdentifiers(plainText(docXml)) = {Id_ab})
       => placeholders[1].value = <<Id_ab>>

C8_Witness ==
    /\ PlaceholdersReturned /\ WordContentReturned
    /\ Cardinality(Occurrences(plainText(docXml), Token(Id_ab))) = 2
    /\ Cardinality(Occurrences(wordContent[1].value.html, Token(Id_ab))) = 2
    /\ placeholders[1].value = <<Id_ab>>
    /\ wordContent[1].value.variables = <<Id_ab>>

(***************************************************************************)
(* Properties of parseICalDate.                                            *)
(***************************************************************************)

SecondsPerDay == 24 * 60 * 60

\* the instant, in seconds since the epoch, of the UTC date and time f
UtcSeconds(f) ==
    DaysFromCivil(f[1], f[2], f[3]) * SecondsPerDay
        + f[4] * 3600 + f[5] * 60 + f[6]

\* the instant of midnight of the day f in the device's time zone
LocalMidnightSeconds(f) ==
    DaysFromCivil(f[1], f[2], f[3]) * SecondsPerDay - tz * 60

\* C11: parseICalDate maps a date-only value YYYYMMDD to local midnight of
\* that day, and a date-time value YYYYMMDDTHHmmssZ to the UTC instant with
\* that year, month, day, hour, minute and second.
C11_DateAndDateTime ==
    \A f \in DateFields :
        (dateLine = DateLine(f) /\ dateResult # Null) =>
            /\ dateResult[1].valid
            /\ dateResult[1].t * 60 =
                   IF Len(f) = 3 THEN LocalMidnightSeconds(f) ELSE UtcSeconds(f)

\* what holds of the code: the second of a date-time value is dropped
C11_DateAndDateTimeToTheMinute ==
    \A f \in DateFields :
        (dateLine = DateLine(f) /\ dateResult # Null) =>
            /\ dateResult[1].valid
            /\ dateResult[1].t * 60 =
                   IF Len(f) = 3 THEN LocalMidnightSeconds(f)
                   ELSE UtcSeconds(f) - f[6]

AppendsManual(before, booking, list) ==
    /\ Len(list) = Len(before) + 1
    /\ SubSeq(list, 1, Len(before)) = before
    /\ list[Len(list)].source = "manual"
    /\ list[Len(list)].guestName = booking.guestName
    /\ list[Len(list)].startDate = booking.startDate
    /\ list[Len(list)].endDate = booking.endDate

\* the dates of two stored bookings overlap
BookingsOverlap(a, b) ==
    /\ TimeOf(a.startDate) < TimeOf(b.endDate)
    /\ TimeOf(b.startDate) < TimeOf(a.endDate)

\* C13: whatever the store holds, overlapping bookings included,
\* addManualBooking can be called and its effect on the list is to append
\* one booking with source 'manual' at the end; the bookings stored before
\* stay as they were and where they were.
C13_AddManualAppends ==
    \A booking \in ManualInputs :
        Len(bookings) < MaxBookings =>
            ENABLED (/\ AddManualBooking(booking)
                     /\ AppendsManual(bookings, booking, bookings'))

C13_Witness ==
    /\ Len(bookings) = 2
    /\ bookings[1].source # "manual"
    /\ bookings[2].source = "manual"
    /\ BookingsOverlap(bookings[1], bookings[2])

(***************************************************************************)
(* More properties of the substitution.                                    *)
(***************************************************************************)

\* the entry of the value map whose placeholder is at position i of html
EntryAt(html, keyValues, i) ==
    {k \in 1..Len(keyValues) : MatchAt(html, Token(keyValues[k][1]), i)}

\* one pass over html from position i: a placeholder of a key of the map
\* becomes the escaped value of that key, any other character is copied
RECURSIVE SinglePassFrom(_, _, _)
RECURSIVE SinglePassWith(_, _, _, _)
SinglePassFrom(html, keyValues, i) ==
    IF i >= Len(html) THEN <<>>
    ELSE IF EntryAt(html, keyValues, i) = {}
         THEN <<html[i + 1]>> \o SinglePassFrom(html, keyValues, i + 1)
         ELSE SinglePassWith(html, keyValues, i,
                            keyValues[CHOOSE k \in EntryAt(html, keyValues, i) : TRUE])

SinglePassWith(html, keyValues, i, entry) ==
    escapeHtml(entry[2]) \o SinglePassFrom(html, keyValues, i + Len(Token(entry[1])))

\* no value of the map holds the placeholder of a key of the map
NoPlaceholderInValues(keyValues) ==
    \A j, k \in 1..Len(keyValues) : ~Includes(keyValues[j][2], Token(keyValues[k][1]))

\* C14: the substituted HTML is the template with every occurrence of {key},
\* for every key of the value map, replaced by exactly the HTML-escaped
\* value of that key, whatever string the value is, and with every other
\* character of the template unchanged.
C14_EscapedValueForEveryValue ==
    processedHtml # Null => processedHtml[1] = SinglePassFrom(tplHtml, entries, 0)

\* what holds of the code: C14 for value maps without a dollar sign in a
\* value and without the placeholder of a key of the map in a value
C14_EscapedValueWithoutDollar ==
    (/\ processedHtml # Null
     /\ NoPlaceholderInValues(entries)
     /\ \A k \in 1..Len(entries) : ~Includes(entries[k][2], <<"$">>))
    => processedHtml[1] = SinglePassFrom(tplHtml, entries, 0)

\* C14 fails for a dollar sign alone: the value map holds no placeholder
C14_EscapedValueWithoutPlaceholder ==
    (processedHtml # Null /\ NoPlaceholderInValues(entries))
    => processedHtml[1] = SinglePassFrom(tplHtml, entries, 0)

\* the names that are no key of the value map
UndeclaredKeys == {KeyNames[k] : k \in 1..Len(KeyNames)} \ DeclaredKeys

\* entry k of the value map is substituted in the template and its value
\* holds the placeholder of b
InsertsPlaceholder(k, b) ==
    /\ Includes(tplHtml, Token(entries[k][1]))
    /\ Includes(entries[k][2], Token(b))

\* C15: when the value substituted for {a} holds the text {b} and b is no
\* key of the value map, the output holds {b} verbatim at every place
\* where the value of a was inserted, besides the places where the
\* template had {b} itself: no later pass touches the inserted text.
C15_InsertedPlaceholderKept ==
    processedHtml # Null =>
        \A k \in 1..Len(entries) : \A b \in UndeclaredKeys :
            InsertsPlaceholder(k, b) =>
                Cardinality(Occurrences(processedHtml[1], Token(b)))
                    >= Cardinality(Occurrences(tplHtml, Token(b)))
                           + Cardinality(Occurrences(tplHtml, Token(entries[k][1])))

C15_Witness ==
    /\ processedHtml # Null
    /\ \E k \in 1..Len(entries) : \E b \in UndeclaredKeys :
           /\ InsertsPlaceholder(k, b)
           /\ Cardinality(Occurrences(tplHtml, Token(entries[k][1]))) = 2
           /\ Cardinality(Occurrences(processedHtml[1], Token(b))) = 2

(***************************************************************************)
(* Concurrent and failing syncs.                                           *)
(***************************************************************************)

\* the bookings of a list that are not manual
ExternalOf(list) == SelectSeq(list, LAMBDA b : b.source # "manual")

\* C16: nothing cancels a sync. When a response is processed while another
\* sync has been started, whether that one is still in flight or has
\* already written the store, the external bookings of the store become
\* those of the response processed now, also when its sync was started
\* first.
C16_LastResponseWins ==
    [][\A s, r \in SyncIds :
          (r # s /\ syncs[r].pc # "idle" /\ SyncSucceeds(s)) =>
              ExternalOf(bookings')
                  = iCalEventsToBookings(parsed[syncs'[s].feed], syncs[s].source).value
      ]_vars

\* C16 witness: both syncs have succeeded with different feeds and the
\* store holds the feed of the sync that was started first
C16_Witness ==
    /\ syncs[1].pc = "done" /\ syncs[1].result.success /\ syncs[1].feed = 1
    /\ syncs[2].pc = "done" /\ syncs[2].result.success /\ syncs[2].feed = 2
    /\ syncs[1].source # syncs[2].source
    /\ Len(ExternalOf(bookings)) = 1
    /\ ExternalOf(bookings)[1].id = Uid1
    /\ ExternalOf(bookings)[1].source = syncs[1].source

\* what a failed call of sync s leaves: its result, the store's syncError,
\* the booking list as it was, and no sync fetching that was not
FailedWith(s, errorMessage) ==
    /\ syncs'[s].pc = "done"
    /\ syncs'[s].result = [success |-> FALSE, newBookings |-> 0, errors |-> <<errorMessage>>]
    /\ syncError' = Some(errorMessage)
    /\ bookings' = bookings
    /\ \A r \in SyncIds : syncs'[r].pc = "fetch" => r # s /\ syncs[r].pc = "fetch"

\* C17: while the fetch of a sync is pending, a response that is not ok and
\* a rejection each end the call: it returns success false, newBookings 0
\* and the error message, syncError holds the message, the booking list is
\* as it was, no fetch is started; and a call that has returned never
\* fetches again.
C17_FetchFailureNoRetry ==
    /\ [](\A s \in SyncIds : syncs[s].pc = "fetch" =>
             /\ ENABLED (FetchResolved(s, FALSE) /\ FailedWith(s, "Error de red: 500"))
             /\ ENABLED (AwaitRejected(s) /\ FailedWith(s, "Network request failed")))
    /\ [][\A s \in SyncIds : syncs[s].pc = "done" => syncs'[s].pc = "done"]_vars

\* C17 witness: a sync has failed on its fetch while the store holds
\* bookings
C17_Witness ==
    /\ \E s \in SyncIds :
           /\ syncs[s].pc = "done"
           /\ syncs[s].result = [success |-> FALSE, newBookings |-> 0,
                                 errors |-> <<"Error de red: 500">>]
    /\ syncError = Some("Error de red: 500")
    /\ Len(bookings) = 2

(***************************************************************************)
(* Properties of the screens' handlers.                                    *)
(***************************************************************************)

\* C18: every busy flag a handler raises is reset later, whether the
\* awaited operation succeeds or throws: isSyncing of syncFromUrl, isLoading
\* of the template fill screen's initial load and of the Word scan of the
\* template editor, isGenerating of the PDF generation.
C18_BusyFlagsReset ==
    /\ isSyncing ~> ~isSyncing
    /\ isLoading ~> ~isLoading
    /\ isGenerating ~> ~isGenerating

\* what holds of the code: C18 for every flag but isLoading of the template
\* fill screen, and for that one when neither listTemplates nor
\* loadTemplate rejects
C18_BusyFlagsResetUnlessLoadRejects ==
    /\ isSyncing ~> ~isSyncing
    /\ isLoading ~> (~isLoading \/ rejection # Null)
    /\ isGenerating ~> ~isGenerating
    /\ isScanning ~> ~isScanning

\* the message of the error the screen's extractor throws for a package
\* without word/document.xml
MissingXmlMessage ==
    IF screen = "template-editor" THEN "No se encontró contenido en el documento Word"
    ELSE "No se encontró document.xml en el archivo"

\* the scan handler has caught the error: an alert shows it, the busy flags
\* are down, nothing was stored and the handler's promise has not rejected
MissingXmlAlerted ==
    /\ alert' = Alert("Error", ScanErrorMessage, MissingXmlMessage)
    /\ ~isLoading'
    /\ ~isScanning'
    /\ pc' = "idle"
    /\ rejection' = Null
    /\ UNCHANGED <<placeholders, wordContent>>

\* C20: for a package without word/document.xml each extractor throws its
\* fixed message and returns no variable list, and the scan handler that
\* awaits it catches the error, shows an alert and clears its busy flag; the
\* error does not leave the handler.
C20_MissingXmlCaught ==
    (docXml = NullFile /\ pc = "extract") =>
        /\ extractPlaceholdersFromTemplate(docXml)
               = Threw("No se encontró document.xml en el archivo")
        /\ extractWordContentAsHtml(docXml)
               = Threw("No se encontró contenido en el documento Word")
        /\ isLoading = (screen = "template-editor")
        /\ isScanning = (screen = "template-debugger")
        /\ ENABLED (ExtractSettled(TRUE) /\ MissingXmlAlerted)

\* C20 witness: the template debugger and the template editor after the
\* scan of such a package
C20_Witness ==
    /\ docXml = NullFile
    /\ screen \in {"template-debugger", "template-editor"}
    /\ pc = "idle"
    /\ alert = Alert("Error", ScanErrorMessage, MissingXmlMessage)
    /\ ~isLoading /\ ~isScanning
    /\ placeholders = Null /\ wordContent = Null

(***************************************************************************)
(* Properties of uploadAndRecordDocument.                                  *)
(***************************************************************************)

\* the call goes on to record the document without a file_url
RecordsWithoutUrl ==
    /\ upload'.pc = "record.getUser"
    /\ upload'.recording = Some(RecordArgument(upload.doc, Undefined))
    /\ upload'.result = Null
    /\ UNCHANGED generatedDocuments

\* the row is inserted without a file_url and the call resolves with what
\* the insertion gave
InsertionReturned(outcome) ==
    /\ upload'.pc = "done"
    /\ upload'.result = Some(InsertionResult(outcome, InsertedRow(upload.recording[1])))
    /\ outcome = "row" =>
           /\ Len(generatedDocuments') = Len(generatedDocuments) + 1
           /\ generatedDocuments'[Len(generatedDocuments')].file_url = Undefined
           /\ generatedDocuments'[Len(generatedDocuments')].title = upload.doc.title
           /\ upload'.result[1].success

\* C19: for an authenticated user (getUser gives the user whenever
\* recordGeneratedDocument asks), an error returned by the storage upload
\* and an error thrown by a step before the recording both lead to the
\* insertion of a generated_documents row without file_url, and the call
\* resolves with the result of that insertion.
C19_RecordedWithoutUrl ==
    upload # Null =>
        /\ upload.pc = "getUser" =>
               ENABLED (GetUserSettled("throws") /\ RecordsWithoutUrl)
        /\ upload.pc = "read" =>
               ENABLED (ReadSettled(FALSE) /\ RecordsWithoutUrl)
        /\ upload.pc = "upload" =>
               /\ ENABLED (StorageSettled("error") /\ RecordsWithoutUrl)
               /\ ENABLED (StorageSettled("throws") /\ RecordsWithoutUrl)
        /\ (upload.pc = "record.getUser" /\ upload.recording[1].file_url = Undefined) =>
               ENABLED (/\ RecordGetUserSettled("user")
                        /\ upload'.pc = "record.insert"
                        /\ upload'.recording = upload.recording
                        /\ upload'.result = Null)
        /\ (upload.pc = "record.insert" /\ upload.recording[1].file_url = Undefined) =>
               \A outcome \in {"row", "error", "throws"} :
                   ENABLED (InsertSettled(outcome) /\ InsertionReturned(outcome))
        /\ (upload.uploadError # Null \/ upload.caught # Null) =>
               /\ upload.pc \in {"record.getUser", "record.insert", "done"}
               /\ upload.recording = Some(RecordArgument(upload.doc, Undefined))
               /\ \A k \in 1..Len(generatedDocuments) :
                      generatedDocuments[k].file_url = Undefined

\* C19 witness: the upload returned an error, the row was inserted without
\* file_url and the call resolved with success and that row
C19_Witness ==
    /\ upload # Null
    /\ upload.pc = "done"
    /\ upload.uploadError # Null
    /\ Len(generatedDocuments) = 1
    /\ generatedDocuments[1].file_url = Undefined
    /\ upload.result = Some(Success(generatedDocuments[1]))

(***************************************************************************)
(* More properties of the calendar store.                                  *)
(***************************************************************************)

\* sync s ends in its catch block
SyncFails(s) ==
    syncs[s].pc # "done" /\ syncs'[s].pc = "done" /\ ~syncs'[s].result.success

\* C28: lastSyncDate and syncError are never both set. A successful sync
\* sets lastSyncDate and clears syncError; a failed sync sets syncError and
\* puts lastSyncDate back to null, also after an earlier sync succeeded.
C28_DateOrError ==
    /\ [](lastSyncDate = Null \/ syncError = Null)
    /\ [][\A s \in SyncIds :
             /\ SyncSucceeds(s) => (lastSyncDate' = Some(now) /\ syncError' = Null)
             /\ SyncFails(s) => (lastSyncDate' = Null /\ syncError' # Null
                                 /\ syncError' = Some(syncs'[s].result.errors[1]))
         ]_vars

\* C28 witness: the first sync succeeded, the second failed after it, and
\* the date of the first is gone
C28_Witness ==
    /\ syncs[1].pc = "done" /\ syncs[1].result.success
    /\ syncs[2].pc = "done" /\ ~syncs[2].result.success
    /\ lastSyncDate = Null
    /\ syncError # Null

\* an event of the sequence has a start or an end that is an invalid date
HasInvalidDate(events) ==
    \E k \in 1..Len(events) : ~events[k].dtstart.valid \/ ~events[k].dtend.valid

\* an event of the sequence has a valid start and a valid end
HasValidEvent(events) ==
    \E k \in 1..Len(events) : events[k].dtstart.valid /\ events[k].dtend.valid

\* C29: an event whose date value does not parse is kept by the parser (the
\* feed gives one event per block it has), converting the events throws,
\* and a sync that reads such a feed ends in its catch block: success false,
\* syncError set, the booking list as it was, the valid events of the feed
\* not imported.
C29_InvalidDateFailsSync ==
    \A s \in SyncIds : syncs[s].pc = "text" =>
        \A f \in 1..Len(Feeds) : HasInvalidDate(parsed[f]) =>
            /\ Len(parsed[f]) = Cardinality(BlockBegins(Feeds[f]))
            /\ iCalEventsToBookings(parsed[f], syncs[s].source).threw
            /\ ENABLED (TextResolved(s, f) /\ FailedWith(s, "Invalid time value"))

\* C29 witness: a sync of the feed that has a valid event and an event with
\* an invalid date has failed, and the store still holds what it held
C29_Witness ==
    /\ \E f \in 1..Len(Feeds) : HasInvalidDate(parsed[f]) /\ HasValidEvent(parsed[f])
    /\ \E s \in SyncIds :
           /\ syncs[s].pc = "done"
           /\ syncs[s].result = [success |-> FALSE, newBookings |-> 0,
                                 errors |-> <<"Invalid time value">>]
    /\ syncError = Some("Invalid time value")
    /\ Len(bookings) = 1
    /\ bookings[1].id = Uid2

\* C27: the ids of the stored bookings are pairwise distinct, whatever calls
\* of addManualBooking and successful syncs led to the list.
C27_IdsDistinct ==
    \A i, j \in 1..Len(bookings) : bookings[i].id = bookings[j].id => i = j

\* the booking iCalEventsToBookings makes of the event: nothing in it comes
\* from the store
FromFeedOnly(b, event, source) ==
    /\ b.id = event.uid
    /\ b.source = source
    /\ b.status = "confirmed"
    /\ b.propertyId = "default"
    /\ b.totalPrice = NoNumber
    /\ b.notes = event.description
    /\ b.guestName = (IF TruthyStr(event.summary) THEN event.summary ELSE S_ReservaExterna)
    /\ b.startDate = ToISOString(event.dtstart)
    /\ b.endDate = ToISOString(event.dtend)

\* C23: when a sync succeeds, every stored external booking whose UID is in
\* the feed that was read is replaced by the booking made of the feed's
\* event: whatever updateBooking had changed in it (notes, status, price) is
\* gone.
C23_SyncDropsEdits ==
    [][\A s \in SyncIds : SyncSucceeds(s) =>
          LET events == parsed[syncs'[s].feed]
          IN  \A e \in 1..Len(events) :
                  (\E j \in 1..Len(bookings) :
                       bookings[j].id = events[e].uid /\ bookings[j].source # "manual")
                  => /\ \E k \in 1..Len(bookings') : bookings'[k].id = events[e].uid
                     /\ \A k \in 1..Len(bookings') :
                            bookings'[k].id = events[e].uid =>
                                FromFeedOnly(bookings'[k], events[e], syncs[s].source)
      ]_vars

\* C23 witness: the last updateBooking changed the stored booking of a UID,
\* and the store holds that UID as the feed gives it
C23_Witness ==
    /\ edited # Null
    /\ edited[1].id = Uid1
    /\ "status" \in DOMAIN edited[1].updates
    /\ \E k \in 1..Len(bookings) :
           /\ bookings[k].id = Uid1
           /\ bookings[k].status = "confirmed"
           /\ bookings[k].totalPrice = NoNumber
    /\ \A s \in SyncIds : syncs[s].pc = "done" /\ syncs[s].result.success

(***************************************************************************)
(* The new-booking forms of the two calendar screens: CalendarScreen of    *)
(* src/unnamed/part_010 (text fields) and CalendarScreen of                *)
(* src/unnamed/part_008 (date pickers).                                    *)
(***************************************************************************)

CalendarScreens == {"calendar-text", "calendar-picker"}

\* what the user types into a date field of the text form: nothing, a day,
\* or text that is not a date
DayTexts == { <<>>, <<2024, 1, 10>>, <<2024, 1, 15>>, <<"x">> }

\* the days the user taps in the picker
PickerDays == { <<2024, 1, 10>>, <<2024, 1, 13>>, <<2024, 1, 15>> }

GuestNames == { <<>>, <<" ">>, <<"A">> }

\* price texts (none of them has a fraction)
PriceTexts == { <<>>, <<"0">>, <<"5", "0">> }

\* the instant the clock shows when it reads t
ClockOrigin == MakeTime(2024, 0, 12, 9, 30)

\* new Date() when the clock reads t
DateNow(t) == ValidDate(ClockOrigin + t)

\* parseFloat(text) of a text without fraction
parseFloat(text) == ParseInt(text)

\* parseFloat(text) || 0
parseFloatOrZero(text) == IF parseFloat(text).nan THEN 0 ELSE parseFloat(text).n

\* a >= b on Date objects: false when either is invalid
DateAtLeast(a, b) == a.valid /\ b.valid /\ a.t >= b.t

\* useState of the form: text fields in part_010, Date objects in part_008
InitialForm(scr, t) ==
    IF scr = "calendar-text"
    THEN [guestName |-> <<>>, startDate |-> <<>>, endDate |-> <<>>, totalPrice |-> <<>>]
    ELSE [guestName |-> <<>>, startDate |-> DateNow(t),
          endDate |-> ValidDate(DateNow(t).t + 3 * MinutesPerDay), pricePerNight |-> <<>>]

InitForms ==
    /\ CalInit
    /\ tz = 60
    /\ parsed = <<>>
    /\ ICalIdle
    /\ DocIdle
    /\ PdfIdle
    /\ DateIdle
    /\ icalRuns = <<>>
    /\ UploadIdle
    /\ edited = Null
    /\ RlsIdle
    /\ ServiceIdle
    /\ AuthIdle
    /\ screen \in CalendarScreens
    /\ newBooking = InitialForm(screen, now)
    /\ pc = "idle"
    /\ paramsId = FALSE
    /\ template = Null
    /\ isLoading = FALSE
    /\ isGenerating = FALSE
    /\ isScanning = FALSE
    /\ alert = Null
    /\ rejection = Null

\* what no handler of the forms touches
outsideForms ==
    <<lastSyncDate, syncError, isSyncing, syncs, conflict, parsed, tz, icalVars, docVars,
      pdfVars, dateVars, icalRuns, uploadVars, edited, rlsVars, serviceVars, authVars,
      screen, pc,
      paramsId,
      template, isLoading, isGenerating, isScanning>>

\* onChangeText of a field of either form
ChangeText(field, text) ==
    /\ field \in DOMAIN newBooking
    /\ newBooking' = [newBooking EXCEPT ![field] = text]
    /\ UNCHANGED <<outsideForms, bookings, now, alert, rejection>>

\* handleCreateBooking of part_010: the fields are texts, tested for being
\* empty only; new Date(text).toISOString() throws a RangeError on text that
\* is not a date, after checkConflict found nothing
CreateFromTexts ==
    /\ screen = "calendar-text"
    /\ Len(bookings) < MaxBookings
    /\ IF newBooking.guestName = <<>> \/ newBooking.startDate = <<>>
          \/ newBooking.endDate = <<>>
       THEN /\ alert' = Alert("Error", "Por favor, complete todos los campos", <<>>)
            /\ UNCHANGED <<bookings, newBooking, rejection>>
       ELSE IF checkConflict(bookings, newBooking.startDate, newBooking.endDate,
                             Undefined) # <<>>
       THEN /\ alert' = Alert("Conflicto de Fechas",
                              "Las fechas seleccionadas ya estan ocupadas por: ",
                              checkConflict(bookings, newBooking.startDate,
                                            newBooking.endDate, Undefined)[1].guestName)
            /\ UNCHANGED <<bookings, newBooking, rejection>>
       ELSE IF ~NewDate(newBooking.startDate).valid \/ ~NewDate(newBooking.endDate).valid
       THEN /\ rejection' = Some("RangeError: Invalid time value")
            /\ UNCHANGED <<bookings, newBooking, alert>>
       ELSE /\ bookings' = addBooking(bookings, NewManualBooking(
                   [propertyId |-> "default", guestName |-> newBooking.guestName,
                    startDate |-> ToISOString(NewDate(newBooking.startDate)),
                    endDate |-> ToISOString(NewDate(newBooking.endDate)),
                    status |-> "confirmed",
                    totalPrice |-> SomeNumber(parseFloatOrZero(newBooking.totalPrice)),
                    notes |-> Undefined], now))
            /\ newBooking' = InitialForm("calendar-text", now)
            /\ alert' = Alert("Exito", "Reserva creada correctamente", <<>>)
            /\ UNCHANGED rejection
    /\ UNCHANGED <<outsideForms, now>>

\* handleOpenNewBooking of part_008: the form is reset
HandleOpenNewBooking ==
    /\ screen = "calendar-picker"
    /\ newBooking' = InitialForm("calendar-picker", now)
    /\ UNCHANGED <<outsideForms, bookings, now, alert, rejection>>

\* handleDateSelected of part_008; type is datePickerType, which
\* openDatePicker set just before the picker opened
HandleDateSelected(type, day) ==
    /\ screen = "calendar-picker"
    /\ LET selectedDate == NewDate(day)
       IN  newBooking' =
             IF type = "start"
             THEN [newBooking EXCEPT
                     !.startDate = selectedDate,
                     !.endDate = IF DateAtLeast(selectedDate, newBooking.endDate)
                                 THEN ValidDate(selectedDate.t + MinutesPerDay)
                                 ELSE newBooking.endDate]
             ELSE IF DateLess(newBooking.startDate, selectedDate)
                  THEN [newBooking EXCEPT !.endDate = selectedDate]
                  ELSE newBooking
    /\ UNCHANGED <<outsideForms, bookings, now, alert, rejection>>

\* nights: Math.max(1, Math.ceil(diff / one day))
Nights(form) ==
    LET diff == form.endDate.t - form.startDate.t
        up == (diff + MinutesPerDay - 1) \div MinutesPerDay
    IN  IF up < 1 THEN 1 ELSE up

\* handleCreateBooking of part_008
CreateFromPicker ==
    /\ screen = "calendar-picker"
    /\ Len(bookings) < MaxBookings
    /\ LET startStr == ToISOString(newBooking.startDate)
           endStr == ToISOString(newBooking.endDate)
       IN  IF Trim(newBooking.guestName) = <<>>
           THEN /\ alert' = Alert("Error", "Por favor, introduzca el nombre del huesped", <<>>)
                /\ UNCHANGED bookings
           ELSE IF newBooking.pricePerNight = <<>>
                   \/ (~parseFloat(newBooking.pricePerNight).nan
                       /\ parseFloat(newBooking.pricePerNight).n <= 0)
           THEN /\ alert' = Alert("Error", "Por favor, introduzca el precio por noche", <<>>)
                /\ UNCHANGED bookings
           ELSE IF checkConflict(bookings, startStr, endStr, Undefined) # <<>>
           THEN /\ alert' = Alert("Conflicto de Fechas",
                                  "Las fechas seleccionadas ya estan ocupadas por: ",
                                  checkConflict(bookings, startStr, endStr,
                                                Undefined)[1].guestName)
                /\ UNCHANGED bookings
           ELSE /\ bookings' = addBooking(bookings, NewManualBooking(
                       [propertyId |-> "default", guestName |-> newBooking.guestName,
                        startDate |-> startStr, endDate |-> endStr,
                        status |-> "confirmed",
                        totalPrice |-> SomeNumber(parseFloatOrZero(newBooking.pricePerNight)
                                                  * Nights(newBooking)),
                        notes |-> Undefined], now))
                /\ alert' = Alert("Exito", "Reserva creada", <<>>)
    /\ UNCHANGED <<outsideForms, newBooking, now, rejection>>

NextForms ==
    \/ \E text \in GuestNames : ChangeText("guestName", text)
    \/ \E field \in {"startDate", "endDate"} : \E text \in DayTexts :
           screen = "calendar-text" /\ ChangeText(field, text)
    \/ \E field \in {"totalPrice", "pricePerNight"} : \E text \in PriceTexts :
           ChangeText(field, text)
    \/ CreateFromTexts
    \/ HandleOpenNewBooking
    \/ \E type \in {"start", "end"} : \E day \in PickerDays : HandleDateSelected(type, day)
    \/ CreateFromPicker

SpecForms == InitForms /\ [][NextForms]_vars

\* C21 (as stated): every manual booking the screens created starts strictly
\* before it ends
C21_ManualStartBeforeEnd ==
    \A k \in 1..Len(bookings) :
        IsManual(bookings[k]) =>
            DateLess(NewDate(bookings[k].startDate), NewDate(bookings[k].endDate))

\* C21 (what holds): a booking created through the form with date pickers
\* starts strictly before it ends and has a guest name that is not blank; a
\* booking created through the form with text fields has a guest name that
\* is not empty
C21_PickerStartBeforeEnd ==
    \A k \in 1..Len(bookings) :
        /\ bookings[k].guestName # <<>>
        /\ screen = "calendar-picker" =>
              /\ DateLess(NewDate(bookings[k].startDate), NewDate(bookings[k].endDate))
              /\ Trim(bookings[k].guestName) # <<>>

C21_PickerWitness ==
    /\ screen = "calendar-picker"
    /\ Len(bookings) = 2

(***************************************************************************)
(* Row level security of document_templates (src/unnamed/part_000),        *)
(* reservations (src/supabase/06_reservations.sql) and generated_documents *)
(* (src/supabase/09_additional_tables_and_storage.sql). A statement of a   *)
(* client runs with auth.uid() of its session; uid is NoUid without one.   *)
(***************************************************************************)

Tables == {"document_templates", "reservations", "generated_documents"}

Users == {"u1", "u2"}

\* auth.uid() of a client without a session (NULL)
NoUid == "null"

\* rows a table holds at most
MaxRows == 3

\* the column the policies of a table compare with auth.uid()
OwnerColumn(tbl) == IF tbl = "reservations" THEN "owner_id" ELSE "user_id"

Owner(tbl, row) == row[OwnerColumn(tbl)]

\* a mutant of Policy: the table has no policy FOR UPDATE that looks at the owner
Mutant_Policy(tbl, command, uid, row) ==
    command = "UPDATE" \/ (uid # NoUid /\ uid = Owner(tbl, row))

\* the policy expression of a table for a command: auth.uid() = user_id, or
\* auth.uid() = owner_id for reservations; a comparison with NULL is not true
Policy(tbl, command, uid, row) == uid # NoUid /\ uid = Owner(tbl, row)

\* a row of the table as the scripts create it, owned by u
NewRow(tbl, id, u) ==
    IF tbl = "document_templates"
    THEN [id |-> id, user_id |-> u, type |-> "contract", is_default |-> TRUE]
    ELSE IF tbl = "reservations"
    THEN [id |-> id, owner_id |-> u, status |-> "pending"]
    ELSE [id |-> id, user_id |-> u, title |-> <<"t">>]

\* the changes a client sends with an update: a column of the table, or the
\* owner column set to some user
Patches(tbl) ==
    (IF tbl = "document_templates"
     THEN { [is_default |-> FALSE], [is_default |-> TRUE] }
     ELSE IF tbl = "reservations"
     THEN { [status |-> "cancelled"] }
     ELSE { [title |-> <<"n">>] })
    \cup { [c \in {OwnerColumn(tbl)} |-> u] : u \in Users }

\* the filters a client sends: none, .eq('id', id), .eq('type', type)
NoFilter == [all |-> TRUE]

Filters(tbl) ==
    {NoFilter} \cup { [id |-> id] : id \in 1..MaxRows }
    \cup (IF tbl = "document_templates" THEN { [type |-> "contract"] } ELSE {})

\* what a statement without body sends
NoPayload == [none |-> TRUE]

Matches(row, filter) ==
    \/ "all" \in DOMAIN filter
    \/ \A c \in DOMAIN filter : c \in DOMAIN row /\ row[c] = filter[c]

\* the rows a command of uid may touch: the command's USING expression, and
\* for UPDATE and DELETE the SELECT policy as well, since they read the row
Reachable(tbl, rs, command, uid, filter) ==
    { r \in rs : /\ Matches(r, filter)
                 /\ Policy(tbl, "SELECT", uid, r)
                 /\ Policy(tbl, command, uid, r) }

RlsError == Some("new row violates row-level security policy")

\* SELECT: <<rows afterwards, data, error>>
SelectRows(tbl, rs, uid, filter) ==
    <<rs, Reachable(tbl, rs, "SELECT", uid, filter), Null>>

\* UPDATE: a policy that states USING only applies that expression to the
\* new row too; one row that fails it fails the statement
UpdateRows(tbl, rs, uid, filter, patch) ==
    LET targets == Reachable(tbl, rs, "UPDATE", uid, filter)
        changed == { Merged(r, patch) : r \in targets }
    IN  IF \E r \in changed : ~Policy(tbl, "UPDATE", uid, r)
        THEN <<rs, {}, RlsError>>
        ELSE <<(rs \ targets) \cup changed, changed, Null>>

DeleteRows(tbl, rs, uid, filter) ==
    LET targets == Reachable(tbl, rs, "DELETE", uid, filter)
    IN  <<rs \ targets, targets, Null>>

\* INSERT: the expression of the policy is applied to the new row
InsertRow(tbl, rs, uid, row) ==
    IF Policy(tbl, "INSERT", uid, row) THEN <<rs \cup {row}, {row}, Null>>
    ELSE <<rs, {}, RlsError>>

\* gen_random_uuid(): an id no row of the table has
FreshId(rs) == CHOOSE id \in 1..MaxRows : \A r \in rs : r.id # id

InitRls ==
    /\ CalInit
    /\ tz = 60
    /\ parsed = <<>>
    /\ ICalIdle
    /\ DocIdle
    /\ PdfIdle
    /\ DateIdle
    /\ icalRuns = <<>>
    /\ ScreenIdle
    /\ UploadIdle
    /\ edited = Null
    /\ FormIdle
    /\ ServiceIdle
    /\ AuthIdle
    /\ table \in Tables
    /\ rows = { NewRow(table, 1, "u1"), NewRow(table, 2, "u2") }
    /\ reply = Null

outsideRls ==
    <<calVars, tz, icalVars, docVars, pdfVars, dateVars, icalRuns, screenVars, uploadVars,
      edited, formVars, serviceVars, authVars>>

\* a client whose session is uid sends a statement and gets the reply
Statement(uid, command, filter, payload, outcome) ==
    /\ rows' = outcome[1]
    /\ reply' = Some([uid |-> uid, command |-> command, filter |-> filter,
                      payload |-> payload, data |-> outcome[2], error |-> outcome[3]])
    /\ UNCHANGED <<outsideRls, table>>

Select(uid, filter) ==
    Statement(uid, "SELECT", filter, NoPayload, SelectRows(table, rows, uid, filter))

Update(uid, filter, patch) ==
    Statement(uid, "UPDATE", filter, patch, UpdateRows(table, rows, uid, filter, patch))

Delete(uid, filter) ==
    Statement(uid, "DELETE", filter, NoPayload, DeleteRows(table, rows, uid, filter))

Insert(uid, owner) ==
    /\ Cardinality(rows) < MaxRows
    /\ Statement(uid, "INSERT", NoFilter, owner,
                 InsertRow(table, rows, uid, NewRow(table, FreshId(rows), owner)))

NextRls ==
    \/ \E uid \in Users \cup {NoUid} : \E filter \in Filters(table) : Select(uid, filter)
    \/ \E uid \in Users \cup {NoUid} : \E filter \in Filters(table) :
           \E patch \in Patches(table) : Update(uid, filter, patch)
    \/ \E uid \in Users \cup {NoUid} : \E filter \in Filters(table) : Delete(uid, filter)
    \/ \E uid \in Users \cup {NoUid} : \E owner \in Users : Insert(uid, owner)

SpecRls == InitRls /\ [][NextRls]_vars

\* C22: a statement on one of the three tables leaves every row that another
\* user owns as it was and does not return it, and every row it creates or
\* rewrites is owned by the user who sent it
C22_OwnRowsOnly ==
    [][ reply' # Null =>
          LET uid == reply'[1].uid
          IN  /\ \A r \in rows : Owner(table, r) # uid =>
                                    r \in rows' /\ r \notin reply'[1].data
              /\ \A r \in rows' \ rows : Owner(table, r) = uid
              /\ \A r \in reply'[1].data : Owner(table, r) = uid ]_vars

\* the update setDefaultTemplate sends without a user filter, by u1, while u2
\* has a default template of the same type: u1's templates are cleared
C22_Witness ==
    /\ table = "document_templates"
    /\ reply # Null
    /\ reply[1].uid = "u1"
    /\ reply[1].command = "UPDATE"
    /\ reply[1].filter = [type |-> "contract"]
    /\ reply[1].payload = [is_default |-> FALSE]
    /\ reply[1].data # {}
    /\ \E r \in rows : r.user_id = "u2" /\ r.type = "contract" /\ r.is_default

(***************************************************************************)
(* The template service (templateDbService.ts) over document_templates and *)
(* template_versions. Every await of a call is one statement; it reaches   *)
(* the database and is answered (ok), or it fails on the way and the       *)
(* client gets an error object (supabase-js does not throw).               *)
(***************************************************************************)

\* calls of the service in one behaviour
MaxCalls == 2

TemplateRow(id, u, default, content, variables) ==
    [id |-> id, user_id |-> u, type |-> "contract", is_default |-> default,
     html_content |-> content, variables |-> variables]

VersionRow(id, templateId, number, content, variables, summary) ==
    [id |-> id, template_id |-> templateId, version_number |-> number,
     html_content |-> content, variables |-> variables, change_summary |-> summary]

\* the policies of template_versions, FOR SELECT and FOR INSERT: the
\* template of the version belongs to auth.uid()
VersionPolicy(templates, uid, v) ==
    \E dt \in templates : dt.id = v.template_id /\ uid # NoUid /\ dt.user_id = uid

\* .single(): the only row of the data, or an error when it is not exactly one
Single(data) == IF Cardinality(data) = 1 THEN Some(CHOOSE r \in data : TRUE) ELSE Null

\* getTemplate(id): the row or Null (success false)
getTemplate(templates, uid, id, ok) ==
    IF ok THEN Single(SelectRows("document_templates", templates, uid, [id |-> id])[2])
    ELSE Null

\* getVersion(versionId)
getVersion(templates, vs, uid, versionId, ok) ==
    IF ok THEN Single({ v \in vs : v.id = versionId /\ VersionPolicy(templates, uid, v) })
    ELSE Null

\* createVersion, first statement: the latest version number + 1, or 1 when
\* there is none or the statement failed (its error is not read)
NextVersion(templates, vs, uid, templateId, ok) ==
    LET numbers == { v.version_number : v \in { w \in vs : /\ w.template_id = templateId
                                                           /\ VersionPolicy(templates, uid, w) } }
    IN  IF ok /\ numbers # {} THEN (CHOOSE n \in numbers : \A k \in numbers : k <= n) + 1
        ELSE 1

\* createVersion, second statement: the insert is refused by the policy or
\* by UNIQUE(template_id, version_number)
InsertVersion(templates, vs, uid, v, ok) ==
    IF /\ ok
       /\ VersionPolicy(templates, uid, v)
       /\ ~\E w \in vs : w.template_id = v.template_id /\ w.version_number = v.version_number
    THEN vs \cup {v}
    ELSE vs

TemplateResult(success, data, error) == [success |-> success, data |-> data, error |-> error]

\* the templates of u that are the default of their type
Defaults(templates, u) == { t.id : t \in { r \in templates : r.user_id = u /\ r.is_default } }

VersionsOf(vs, templateId) == { v \in vs : v.template_id = templateId }

InFlight(c) == c.pc # "done"

\* the call record. stage: whose createVersionFromCurrent is running;
\* current: the template it read; version: the version restoreVersion read.
\* What the call found when it started and what its update replaced are
\* kept for the properties: versionsBefore, defaultsBefore, templateBefore,
\* previous, overlapped (another call was in flight during this one),
\* faulted (a statement of the call failed on the way)
NewCall(fn, uid, id, updates, versionId, summary, start) ==
    [fn |-> fn, uid |-> uid, id |-> id, updates |-> updates, versionId |-> versionId,
     summary |-> summary, pc |-> start, current |-> Null, nextVersion |-> 0,
     version |-> Null, type |-> "", result |-> Null,
     versionsBefore |-> Cardinality(VersionsOf(versions, id)),
     defaultsBefore |-> Defaults(rows, uid),
     templateBefore |-> { r \in rows : r.id = id },
     previous |-> Null,
     overlapped |-> \E k \in 1..Len(calls) : InFlight(calls[k]),
     faulted |-> FALSE]

\* if (updates.html_content): the empty text is falsy
ContentChanged(updates) ==
    "html_content" \in DOMAIN updates /\ TruthyStr(updates.html_content)

\* where updateTemplate starts
UpdateStart(updates) == IF ContentChanged(updates) THEN "version.getTemplate" ELSE "update"

InitTemplates ==
    /\ CalInit
    /\ tz = 60
    /\ parsed = <<>>
    /\ ICalIdle
    /\ DocIdle
    /\ PdfIdle
    /\ DateIdle
    /\ icalRuns = <<>>
    /\ ScreenIdle
    /\ UploadIdle
    /\ edited = Null
    /\ FormIdle
    /\ AuthIdle
    /\ table = "document_templates"
    /\ rows = { TemplateRow(1, "u1", TRUE, <<"a">>, <<"k">>),
                TemplateRow(2, "u1", FALSE, <<"b">>, <<>>),
                TemplateRow(3, "u2", TRUE, <<"c">>, <<>>) }
    /\ reply = Null
    /\ versions = { VersionRow(1, 1, 1, <<"a">>, <<"k">>, "Version inicial"),
                    VersionRow(2, 2, 1, <<"b">>, <<>>, "Version inicial"),
                    VersionRow(3, 3, 1, <<"c">>, <<>>, "Version inicial") }
    /\ calls = <<>>

outsideTemplates ==
    <<calVars, tz, icalVars, docVars, pdfVars, dateVars, icalRuns, screenVars, uploadVars,
      edited, formVars, authVars, table, reply>>

\* a call begins: the calls in flight are overlapped from now on
Begin(call) ==
    /\ Len(calls) < MaxCalls
    /\ calls' = Append([k \in 1..Len(calls) |->
                           IF InFlight(calls[k]) THEN [calls[k] EXCEPT !.overlapped = TRUE]
                           ELSE calls[k]],
                       call)
    /\ UNCHANGED <<outsideTemplates, rows, versions>>

\* updateTemplate(id, updates, changeSummary) up to its first await
UpdateTemplate(uid, id, updates) ==
    Begin(NewCall("updateTemplate", uid, id, updates, 0, "Actualizacion",
                  UpdateStart(updates)))

\* restoreVersion(templateId, versionId) up to its first await
RestoreVersion(uid, templateId, versionId) ==
    Begin(NewCall("restoreVersion", uid, templateId, NoPayload, versionId,
                  "Antes de restaurar", "getVersion"))

\* setDefaultTemplate(id) up to its first await
SetDefaultTemplate(uid, id) ==
    Begin(NewCall("setDefaultTemplate", uid, id, NoPayload, 0, "", "getTemplate"))

\* the call moves on: its record becomes c
Continue(i, c, ok) == calls' = [calls EXCEPT ![i] = [c EXCEPT !.faulted = @ \/ ~ok]]

Finish(c, result) == [c EXCEPT !.pc = "done", !.result = Some(result)]

\* the stage of createVersionFromCurrent is over: restoreVersion goes on
\* with updateTemplate(templateId, {html_content, variables}, summary),
\* updateTemplate with its update
AfterStage(c) ==
    IF c.pc \in {"backup.getTemplate", "backup.latest", "backup.insert"}
    THEN [c EXCEPT !.pc = UpdateStart(c.updates), !.summary = "Restaurado a version"]
    ELSE [c EXCEPT !.pc = "update"]

StageOf(c) ==
    IF c.pc \in {"backup.getTemplate", "backup.latest", "backup.insert"} THEN "backup"
    ELSE "version"

\* restoreVersion: await getVersion(versionId)
GetVersionSettled(i, ok) ==
    /\ i \in 1..Len(calls)
    /\ calls[i].pc = "getVersion"
    /\ LET c == calls[i]
           found == getVersion(rows, versions, c.uid, c.versionId, ok)
       IN  IF found = Null
           THEN Continue(i, Finish(c, TemplateResult(FALSE, Null, "Version no encontrada")), ok)
           ELSE Continue(i, [c EXCEPT !.version = found,
                                      !.updates = [html_content |-> found[1].html_content,
                                                   variables |-> found[1].variables],
                                      !.pc = "backup.getTemplate"], ok)
    /\ UNCHANGED <<outsideTemplates, rows, versions>>

\* createVersionFromCurrent: await getTemplate(templateId); without the
\* template it returns success false, which its callers do not read
CurrentSettled(i, ok) ==
    /\ i \in 1..Len(calls)
    /\ calls[i].pc \in {"backup.getTemplate", "version.getTemplate"}
    /\ LET c == calls[i]
           found == getTemplate(rows, c.uid, c.id, ok)
       IN  IF found = Null THEN Continue(i, AfterStage(c), ok)
           ELSE Continue(i, [c EXCEPT !.current = found,
                                      !.pc = IF StageOf(c) = "backup" THEN "backup.latest"
                                             ELSE "version.latest"], ok)
    /\ UNCHANGED <<outsideTemplates, rows, versions>>

\* createVersion: the select of the latest version number
LatestSettled(i, ok) ==
    /\ i \in 1..Len(calls)
    /\ calls[i].pc \in {"backup.latest", "version.latest"}
    /\ LET c == calls[i]
       IN  Continue(i, [c EXCEPT !.nextVersion = NextVersion(rows, versions, c.uid, c.id, ok),
                                 !.pc = IF StageOf(c) = "backup" THEN "backup.insert"
                                        ELSE "version.insert"], ok)
    /\ UNCHANGED <<outsideTemplates, rows, versions>>

\* createVersion: the insert; the result goes to createVersionFromCurrent's
\* caller, which does not read it
VersionInsertSettled(i, ok) ==
    /\ i \in 1..Len(calls)
    /\ calls[i].pc \in {"backup.insert", "version.insert"}
    /\ LET c == calls[i]
           v == VersionRow(Cardinality(versions) + 1, c.id, c.nextVersion,
                           c.current[1].html_content, c.current[1].variables, c.summary)
       IN  /\ versions' = InsertVersion(rows, versions, c.uid, v, ok)
           /\ Continue(i, AfterStage(c), ok)
    /\ UNCHANGED <<outsideTemplates, rows>>

\* setDefaultTemplate: await getTemplate(id)
TypeSettled(i, ok) ==
    /\ i \in 1..Len(calls)
    /\ calls[i].pc = "getTemplate"
    /\ LET c == calls[i]
           found == getTemplate(rows, c.uid, c.id, ok)
       IN  IF found = Null
           THEN Continue(i, Finish(c, TemplateResult(FALSE, Null, "Template no encontrado")), ok)
           ELSE Continue(i, [c EXCEPT !.type = found[1].type, !.pc = "clear"], ok)
    /\ UNCHANGED <<outsideTemplates, rows, versions>>

\* setDefaultTemplate: the update that clears is_default for the type; its
\* result is not read; then updateTemplate(id, { is_default: true })
ClearSettled(i, ok) ==
    /\ i \in 1..Len(calls)
    /\ calls[i].pc = "clear"
    /\ LET c == calls[i]
       IN  /\ rows' = IF ok THEN UpdateRows("document_templates", rows, c.uid,
                                            [type |-> c.type], [is_default |-> FALSE])[1]
                      ELSE rows
           /\ Continue(i, [c EXCEPT !.updates = [is_default |-> TRUE],
                                    !.pc = UpdateStart([is_default |-> TRUE])], ok)
    /\ UNCHANGED <<outsideTemplates, versions>>

\* updateTemplate: .update(updates).eq('id', id).select().single()
UpdateSettled(i, ok) ==
    /\ i \in 1..Len(calls)
    /\ calls[i].pc = "update"
    /\ LET c == calls[i]
           out == UpdateRows("document_templates", rows, c.uid, [id |-> c.id], c.updates)
           before == { r \in rows : r.id = c.id }
       IN  IF ok /\ Single(out[2]) # Null
           THEN /\ rows' = out[1]
                /\ Continue(i, [Finish(c, TemplateResult(TRUE, Single(out[2]), ""))
                                  EXCEPT !.previous = Single(before)], ok)
           ELSE /\ rows' = rows
                /\ Continue(i, Finish(c, TemplateResult(FALSE, Null, "error.message")), ok)
    /\ UNCHANGED <<outsideTemplates, versions>>

\* what the screens pass to updateTemplate
TemplateUpdates ==
    { [html_content |-> <<"n">>, variables |-> <<"k">>], [html_content |-> <<"m">>],
      [html_content |-> <<>>] }

NextTemplates ==
    \/ \E id \in {1, 3} : \E updates \in TemplateUpdates : UpdateTemplate("u1", id, updates)
    \/ \E versionId \in {1, 4, 9} : RestoreVersion("u1", 1, versionId)
    \/ \E id \in {1, 2, 3} : SetDefaultTemplate("u1", id)
    \/ \E i \in 1..MaxCalls : \E ok \in BOOLEAN : GetVersionSettled(i, ok)
    \/ \E i \in 1..MaxCalls : \E ok \in BOOLEAN : CurrentSettled(i, ok)
    \/ \E i \in 1..MaxCalls : \E ok \in BOOLEAN : LatestSettled(i, ok)
    \/ \E i \in 1..MaxCalls : \E ok \in BOOLEAN : VersionInsertSettled(i, ok)
    \/ \E i \in 1..MaxCalls : \E ok \in BOOLEAN : TypeSettled(i, ok)
    \/ \E i \in 1..MaxCalls : \E ok \in BOOLEAN : ClearSettled(i, ok)
    \/ \E i \in 1..MaxCalls : \E ok \in BOOLEAN : UpdateSettled(i, ok)

SpecTemplates == InitTemplates /\ [][NextTemplates]_vars

\* C25 (numbering): the version numbers of a template are pairwise distinct
\* and are 1, 2, ... without a gap, whatever calls interleave
C25_VersionNumbers ==
    \A t \in rows :
        /\ \A v, w \in VersionsOf(versions, t.id) :
               v.version_number = w.version_number => v = w
        /\ { v.version_number : v \in VersionsOf(versions, t.id) }
               = 1..Cardinality(VersionsOf(versions, t.id))

\* the calls that ran updateTemplate to its end with success and replaced
\* the content of the template by another one
ReplacedContent(c) ==
    /\ c.fn \in {"updateTemplate", "restoreVersion"}
    /\ c.pc = "done"
    /\ c.result[1].success
    /\ "html_content" \in DOMAIN c.updates
    /\ c.previous[1].html_content # c.updates.html_content

PreviousStored(c) ==
    \E v \in VersionsOf(versions, c.id) :
        /\ v.html_content = c.previous[1].html_content
        /\ v.variables = c.previous[1].variables

\* C25 (as stated): after a successful updateTemplate that changed
\* html_content, the content it replaced is stored as a version of the
\* template, every statement having been answered
C25_PreviousContentStored ==
    \A k \in 1..Len(calls) :
        ReplacedContent(calls[k]) /\ ~calls[k].faulted => PreviousStored(calls[k])

\* C25 (what holds): the same for an update to a content that is not empty,
\* by a call that no other call overlapped
C25_PreviousContentStoredAlone ==
    \A k \in 1..Len(calls) :
        /\ ReplacedContent(calls[k])
        /\ ~calls[k].faulted
        /\ ~calls[k].overlapped
        /\ calls[k].updates.html_content # <<>>
        => PreviousStored(calls[k])

C25_Witness ==
    \E k \in 1..Len(calls) :
        /\ ReplacedContent(calls[k])
        /\ ~calls[k].faulted
        /\ ~calls[k].overlapped
        /\ calls[k].updates.html_content # <<>>
        /\ Cardinality(VersionsOf(versions, calls[k].id)) = 3

\* the call is over, and no other call ran while it did or began after it
ReturnedAlone(k) ==
    /\ k = Len(calls)
    /\ calls[k].pc = "done"
    /\ ~calls[k].overlapped

TemplateOf(c) == { r \in rows : r.id = c.id }

\* the versions of the call's template that hold the content the template
\* had when the call began
BackupCopies(c) ==
    { v \in VersionsOf(versions, c.id) :
        \E t \in c.templateBefore : /\ v.html_content = t.html_content
                                    /\ v.variables = t.variables
                                    /\ v.version_number > c.versionsBefore }

Restored(c) ==
    \A t \in TemplateOf(c) : /\ t.html_content = c.version[1].html_content
                             /\ t.variables = c.version[1].variables

\* C24 (as stated): a restoreVersion that succeeded, every statement having
\* been answered, added exactly one version, the backup copy, and the
\* template has the content and the variables of the chosen version
C24_RestoreAddsOneVersion ==
    \A k \in 1..Len(calls) :
        /\ ReturnedAlone(k)
        /\ calls[k].fn = "restoreVersion"
        /\ calls[k].result[1].success
        /\ ~calls[k].faulted
        => /\ Cardinality(VersionsOf(versions, calls[k].id)) = calls[k].versionsBefore + 1
           /\ Cardinality(BackupCopies(calls[k])) = 1
           /\ Restored(calls[k])

\* C24 (what holds): such a call restores the template; it adds two copies
\* of the pre-restore content when the chosen version's content is not
\* empty and one when it is; and a call that did not find the version
\* returns an error, adds no version and leaves the template as it was
C24_RestoreAddsTwoVersions ==
    \A k \in 1..Len(calls) :
        ReturnedAlone(k) /\ calls[k].fn = "restoreVersion" =>
            /\ calls[k].result[1].success /\ ~calls[k].faulted =>
                  /\ Restored(calls[k])
                  /\ Cardinality(BackupCopies(calls[k]))
                        = (IF calls[k].version[1].html_content # <<>> THEN 2 ELSE 1)
                  /\ Cardinality(VersionsOf(versions, calls[k].id))
                        = calls[k].versionsBefore + Cardinality(BackupCopies(calls[k]))
            /\ calls[k].version = Null =>
                  /\ ~calls[k].result[1].success
                  /\ Cardinality(VersionsOf(versions, calls[k].id)) = calls[k].versionsBefore
                  /\ TemplateOf(calls[k]) = calls[k].templateBefore

\* C26 (as stated): when setDefaultTemplate(id) has returned success, id is
\* the caller's only default template; when it has returned failure, the
\* caller's default templates are those of before the call
C26_OnlyDefaultOrUnchanged ==
    \A k \in 1..Len(calls) :
        ReturnedAlone(k) /\ calls[k].fn = "setDefaultTemplate" =>
            IF calls[k].result[1].success
            THEN Defaults(rows, calls[k].uid) = {calls[k].id}
            ELSE Defaults(rows, calls[k].uid) = calls[k].defaultsBefore

\* C26 (what holds): the same when every statement of the call was answered
C26_OnlyDefaultWhenAnswered ==
    \A k \in 1..Len(calls) :
        ReturnedAlone(k) /\ calls[k].fn = "setDefaultTemplate" /\ ~calls[k].faulted =>
            IF calls[k].result[1].success
            THEN Defaults(rows, calls[k].uid) = {calls[k].id}
            ELSE Defaults(rows, calls[k].uid) = calls[k].defaultsBefore

(***************************************************************************)
(* useAuthStore (src/unnamed/part_016) and RootLayoutNav                   *)
(* (src/unnamed/part_002). React runs an effect after the render that      *)
(* changed one of its dependencies and before the next event of the user;  *)
(* a promise may settle in between.                                        *)
(***************************************************************************)

\* segments[0] of the routes of the app
Groups == {"(auth)", "(tabs)", "checkin", "template-editor"}

\* the session getSession and signIn give
TheSession == Some("session")

\* create(): the initial state of the store
InitialAuth ==
    [user |-> Null, session |-> Null, isLoading |-> TRUE, isAuthenticated |-> FALSE,
     error |-> Null]

\* the dependencies of the navigation effect: [isAuthenticated, isLoading, segments]
Deps(a, n) == <<a.isAuthenticated, a.isLoading, n.route>>

\* a mutant of Redirect: the effect does not look at the checkin group
Mutant_Redirect(a, route) ==
    IF a.isLoading THEN Null
    ELSE IF ~a.isAuthenticated /\ route # "(auth)" THEN Some("(auth)")
    ELSE IF a.isAuthenticated /\ route = "(auth)" THEN Some("(tabs)")
    ELSE Null

\* the navigation effect: the group router.replace goes to, or Null
Redirect(a, route) ==
    IF a.isLoading THEN Null
    ELSE IF route = "checkin" THEN Null
    ELSE IF ~a.isAuthenticated /\ route # "(auth)" THEN Some("(auth)")
    ELSE IF a.isAuthenticated /\ route = "(auth)" THEN Some("(tabs)")
    ELSE Null

\* the layout is mounted on any route: initialize() has set isLoading and
\* error and awaits getSession, and the effects of the mount have to run
InitAuth ==
    /\ CalInit
    /\ tz = 60
    /\ parsed = <<>>
    /\ ICalIdle
    /\ DocIdle
    /\ PdfIdle
    /\ DateIdle
    /\ icalRuns = <<>>
    /\ ScreenIdle
    /\ UploadIdle
    /\ edited = Null
    /\ FormIdle
    /\ RlsIdle
    /\ ServiceIdle
    /\ auth = [InitialAuth EXCEPT !.isLoading = TRUE, !.error = Null]
    /\ authCall = [fn |-> "initialize", pc |-> "await"]
    /\ nav \in { [route |-> g, by |-> "user"] : g \in Groups }
    /\ pending = TRUE

outsideAuth ==
    <<calVars, tz, icalVars, docVars, pdfVars, dateVars, icalRuns, screenVars, uploadVars,
      edited, formVars, rlsVars, serviceVars>>

\* set(...) and router: the effect has to run when a dependency changed
Changed(a, n) ==
    /\ auth' = a
    /\ nav' = n
    /\ pending' = (pending \/ Deps(a, n) # Deps(auth, nav))
    /\ UNCHANGED outsideAuth

Awaiting(fn) == authCall = [fn |-> fn, pc |-> "await"]

\* no call of the store is awaiting and no effect has to run: the user acts
UserTurn == authCall.pc = "done" /\ ~pending

\* initialize: await getSession(), which catches every error and returns null
GetSessionSettled(session) ==
    /\ Awaiting("initialize")
    /\ authCall' = [fn |-> "initialize", pc |-> "done"]
    /\ Changed([auth EXCEPT !.session = session, !.user = session,
                            !.isAuthenticated = (session # Null), !.isLoading = FALSE],
               nav)

\* the callback of onAuthStateChange, for the end of the session
AuthStateChange ==
    /\ ~Awaiting("initialize")
    /\ auth.session # Null
    /\ UNCHANGED authCall
    /\ Changed([auth EXCEPT !.session = Null, !.user = Null, !.isAuthenticated = FALSE],
               nav)

\* login(email, password) up to its await, from the login screen
Login ==
    /\ UserTurn
    /\ nav.route = "(auth)"
    /\ authCall' = [fn |-> "login", pc |-> "await"]
    /\ Changed([auth EXCEPT !.isLoading = TRUE, !.error = Null], nav)

\* login: await signIn(email, password)
SignInSettled(success) ==
    /\ Awaiting("login")
    /\ authCall' = [fn |-> "login", pc |-> "done"]
    /\ Changed(IF success
               THEN [auth EXCEPT !.user = TheSession, !.session = TheSession,
                                 !.isAuthenticated = TRUE, !.isLoading = FALSE]
               ELSE [auth EXCEPT !.error = Some("Error al iniciar sesion"),
                                 !.isLoading = FALSE],
               nav)

\* register(email, password, fullName) up to its await
Register ==
    /\ UserTurn
    /\ nav.route = "(auth)"
    /\ authCall' = [fn |-> "register", pc |-> "await"]
    /\ Changed([auth EXCEPT !.isLoading = TRUE, !.error = Null], nav)

\* register: await signUp(...); a sign-up that waits for the confirmation
\* of the e-mail address succeeds without a session
SignUpSettled(success, session) ==
    /\ Awaiting("register")
    /\ authCall' = [fn |-> "register", pc |-> "done"]
    /\ Changed(IF success
               THEN [auth EXCEPT !.user = TheSession, !.session = session,
                                 !.isAuthenticated = (session # Null), !.isLoading = FALSE]
               ELSE [auth EXCEPT !.error = Some("Error al registrarse"),
                                 !.isLoading = FALSE],
               nav)

\* forgotPassword(email) up to its await
ForgotPassword ==
    /\ UserTurn
    /\ nav.route = "(auth)"
    /\ authCall' = [fn |-> "forgotPassword", pc |-> "await"]
    /\ Changed([auth EXCEPT !.isLoading = TRUE, !.error = Null], nav)

\* forgotPassword: await resetPassword(email)
ResetPasswordSettled(success) ==
    /\ Awaiting("forgotPassword")
    /\ authCall' = [fn |-> "forgotPassword", pc |-> "done"]
    /\ Changed(IF success THEN [auth EXCEPT !.isLoading = FALSE]
               ELSE [auth EXCEPT !.isLoading = FALSE,
                                 !.error = Some("Error al enviar email")],
               nav)

\* logout() up to its await, from the profile tab
Logout ==
    /\ UserTurn
    /\ nav.route = "(tabs)"
    /\ authCall' = [fn |-> "logout", pc |-> "await"]
    /\ Changed([auth EXCEPT !.isLoading = TRUE, !.error = Null], nav)

\* logout: await signOut(), which catches every error and returns a result
\* that logout does not read
SignOutSettled(success) ==
    /\ Awaiting("logout")
    /\ authCall' = [fn |-> "logout", pc |-> "done"]
    /\ Changed([auth EXCEPT !.user = Null, !.session = Null, !.isAuthenticated = FALSE,
                            !.isLoading = FALSE],
               nav)

\* the user opens a route of another group (a screen of the app or a link);
\* a call of the store may be awaiting meanwhile
Navigate(group) ==
    /\ ~pending
    /\ group # nav.route
    /\ UNCHANGED authCall
    /\ Changed(auth, [route |-> group, by |-> "user"])

\* the navigation effect of RootLayoutNav
RunEffect ==
    /\ pending
    /\ UNCHANGED <<auth, authCall, outsideAuth>>
    /\ LET target == Redirect(auth, nav.route)
       IN  IF target = Null THEN nav' = nav /\ pending' = FALSE
           ELSE nav' = [route |-> target[1], by |-> "layout"] /\ pending' = TRUE

NextAuth ==
    \/ \E session \in {Null, TheSession} : GetSessionSettled(session)
    \/ AuthStateChange
    \/ Login
    \/ \E success \in BOOLEAN : SignInSettled(success)
    \/ Register
    \/ \E success \in BOOLEAN : \E session \in {Null, TheSession} :
           SignUpSettled(success, session)
    \/ ForgotPassword
    \/ \E success \in BOOLEAN : ResetPasswordSettled(success)
    \/ Logout
    \/ \E success \in BOOLEAN : SignOutSettled(success)
    \/ \E group \in Groups : Navigate(group)
    \/ RunEffect

SpecAuth == InitAuth /\ [][NextAuth]_vars /\ WF_vars(RunEffect)

\* the layout has just redirected
RedirectedTo(group) == nav' # nav /\ nav'.by = "layout" /\ nav'.route = group

LoggedOut == authCall = [fn |-> "logout", pc |-> "done"]

\* C30: with the store loaded, an unauthenticated user outside (auth) and
\* checkin is sent to the login screen and an authenticated user inside
\* (auth) to the tabs; the layout redirects in no other case, so never while
\* isLoading or on a checkin route; logout clears user, session and
\* isAuthenticated whatever signOut returned; and a user who logged out
\* outside the checkin group gets to the login screen
C30_AuthRedirects ==
    /\ [](~auth.isLoading /\ ~auth.isAuthenticated /\ nav.route \notin {"(auth)", "checkin"}
            => ENABLED (RunEffect /\ RedirectedTo("(auth)")))
    /\ [](~auth.isLoading /\ auth.isAuthenticated /\ nav.route = "(auth)"
            => ENABLED (RunEffect /\ RedirectedTo("(tabs)")))
    /\ [][ nav'.by = "layout" /\ nav' # nav =>
             /\ ~auth.isLoading
             /\ nav.route # "checkin"
             /\ \/ ~auth.isAuthenticated /\ nav.route # "(auth)" /\ nav'.route = "(auth)"
                \/ auth.isAuthenticated /\ nav.route = "(auth)" /\ nav'.route = "(tabs)" ]_vars
    /\ [][ Awaiting("logout") /\ ~Awaiting("logout")' =>
             /\ auth'.user = Null
             /\ auth'.session = Null
             /\ ~auth'.isAuthenticated ]_vars
    /\ (LoggedOut /\ nav.route # "checkin" ~> nav.route = "(auth)")

\* a user who was authenticated has logged out, signOut having failed or
\* not, and the layout has put the login screen in place of the tabs
C30_Witness ==
    /\ LoggedOut
    /\ nav = [route |-> "(auth)", by |-> "layout"]
    /\ ~auth.isAuthenticated
    /\ ~auth.isLoading
    /\ ~pending

====
